---- MODULE Spec2Model ----
(***************************************************************************)
(* A model of the CyberRoomba pipeline drivers.                            *)
(*                                                                         *)
(* Spec      the recon / attack stage driver: main, startJob / finishJob,  *)
(*           the worker pool (runParallelRecon, runParallelAttacks) and    *)
(*           the per-item stage operation (runReconJob, runAttackJob)      *)
(*           against the shared store.                                     *)
(* SpecScope two scope-intake runs executing upsertTargets on one store.   *)
(*                                                                         *)
(* Node runs the code on one thread: a step of the model is one            *)
(* continuation (the code between two awaits), and the environment (timers,*)
(* tool processes, the store) decides which continuation runs next.        *)
(***************************************************************************)
EXTENDS Integers, Sequences, FiniteSets, Bags, TLC

\* ---------------------------------------------------------------- bounds
\* Largest number of items (targets / recon hosts) a stage finds.
MaxTargets == 3
\* Largest maxConcurrent handed to the worker pool.
MaxConcurrent == 2
\* Largest number of attack results the six templates report for one host.
MaxAttacks == 1

\* ---------------------------------------------------------------- inputs
Stages == {"recon", "attack"}

\* An httpx record carries a url; new URL(url).hostname drops the scheme.
Url(scheme, host) == [scheme |-> scheme, host |-> host]

hostname(url) == url.host

\* What httpx can report for one target: nothing, one host, the same host on
\* two schemes, two different hosts.
HttpxOutputs ==
  { <<>>,
    << Url("http", "h1") >>,
    << Url("http", "h1"), Url("https", "h1") >>,
    << Url("http", "h1"), Url("http", "h2") >> }

\* What the owning target of a recon host looks like to runAttackJob.
TargetKinds == {"missing", "other", "bounty"}

VARIABLES
  stage,            \* which driver runs: recon.ts or the attack driver
  targets,          \* number of items the stage finds; the items are 1..targets
  maxConcurrent,    \* the pool's limit
  hung,             \* the item whose stage operation never settles, 0 when all settle
  mainPc,           \* position of main
  mainPromise,      \* state of the promise main returns
  job,              \* the JobRun document of this run in job_runs
  finishLog,        \* the finishJob calls of main so far: [status, ok]
  pc,               \* position of runParallelRecon / runParallelAttacks
  workers,          \* slot -> the item whose worker promise sits in the slot
  currentIndex,     \* index of the next item to dispatch (items dispatched so far)
  completed,        \* progress counter
  totalHosts,       \* running total (totalHosts / successful)
  raceWinner,       \* slot the pending Promise.race has resolved to, 0 while pending
  totalDiscovered,  \* value the pool returns, -1 before it returns
  itemPc,           \* per item: position of its worker
  opPromise,        \* per item: state of the promise of runReconJob / runAttackJob
  workerPromise,    \* per item: state and value of the worker promise
  aliveHosts,       \* per running item: what httpx reported (local of runReconJob)
  allAttacks,       \* per running item: number of attack results (local of runAttackJob)
  procs,            \* per item: attack-template processes spawned and not yet closed
  storeError,       \* per item: the store call that failed inside the stage operation
  dispatchLog,      \* items in the order they were dispatched
  recon_results,    \* collection recon_results: bag of [targetId, subdomain]
  vulnerabilities,  \* collection vulnerabilities: bag of reconId
  targetsColl,      \* collection targets (scope intake): bag of <<program, value>>
  scopePc,          \* per scope-intake run: position
  scopeBatch,       \* per scope-intake run: the normalized targets to upsert
  existingKeys,     \* per scope-intake run: keys read from the store
  scopeJob,         \* per scope-intake run: its JobRun document
  normInputs,       \* normalizeRecon: the four source payloads of the call
  normPc,           \* normalizeRecon: the source block the call stands before
  hostMap,          \* normalizeRecon: local hostMap, entries in insertion order
  sourcesMeta,      \* normalizeRecon: local sourcesMeta, the pipeline list
  countryByHost,    \* normalizeRecon: local countryByHost
  normResults,      \* what the calls of normalizeRecon so far returned or threw
  vulnInputs,       \* finding normalizer: the raw tool output and the NVD feed
  vulnDone,         \* finding normalizer: the calls made so far
  nucleiFindings,   \* what parseNucleiResults returned
  nmapFindings,     \* what parseNmapVulnerabilities returned
  attacks,          \* what the nuclei attack template mapped its results to
  combined,         \* what mergeFindings returned
  enriched,         \* what enrichVulnerabilitiesWithNvd returned
  matchInputs,      \* CVE matcher: the NVD feed and the technology fingerprints
  matchPc,          \* CVE matcher: the call the fixture check stands before
  cveIndex,         \* what buildCveIndex returned, entries in insertion order
  suggestions,      \* what suggestCvesFromTech returned
  adapterInputs,    \* tool adapter: the tool, what its process writes and how it ends
  adapterPc,        \* tool adapter: state of the child process as the adapter sees it
  delivered,        \* tool adapter: characters of stdout handed over in data events so far
  collected,        \* tool adapter: the local array the data handler pushes to
  adapterPromise,   \* tool adapter: << >> while pending, << records >> once resolved
  hostInputs,       \* one runAttackJob / runVulnJob call: the driver, what the store holds, what the tools find
  hostPc,           \* position of the call
  hostProcs,        \* external scan or attack processes the call has running
  hostInserted,     \* documents the call has inserted into vulnerabilities
  hostOutcome       \* << >> while pending, then << [status, value] >>

stageVars == << stage, targets, maxConcurrent, hung, mainPc, mainPromise, job, finishLog, pc, workers,
                currentIndex, completed, totalHosts, raceWinner, totalDiscovered,
                itemPc, opPromise, workerPromise, aliveHosts, allAttacks, procs, storeError,
                dispatchLog, recon_results, vulnerabilities >>

scopeVars == << targetsColl, scopePc, scopeBatch, existingKeys, scopeJob >>

normVars == << normInputs, normPc, hostMap, sourcesMeta, countryByHost, normResults >>

vulnVars == << vulnInputs, vulnDone, nucleiFindings, nmapFindings, attacks, combined,
              enriched >>

matchVars == << matchInputs, matchPc, cveIndex, suggestions >>

adapterVars == << adapterInputs, adapterPc, delivered, collected, adapterPromise >>

hostVars == << hostInputs, hostPc, hostProcs, hostInserted, hostOutcome >>

vars == << stageVars, scopeVars, normVars, vulnVars, matchVars, adapterVars, hostVars >>

\* No scope-intake run exists.
ScopeIdle ==
  /\ targetsColl = EmptyBag
  /\ scopePc = <<>>
  /\ scopeBatch = <<>>
  /\ existingKeys = <<>>
  /\ scopeJob = <<>>

\* normalizeRecon is not running: recon.ts imports it and never calls it.
NormIdle ==
  /\ normInputs = <<>>
  /\ normPc = "idle"
  /\ hostMap = <<>>
  /\ sourcesMeta = <<>>
  /\ countryByHost = <<>>
  /\ normResults = <<>>

\* No finding has been parsed: the stage drivers do not call the finding
\* normalizer or the CVE matcher.
VulnIdle ==
  /\ vulnInputs = <<>>
  /\ vulnDone = {}
  /\ nucleiFindings = <<>>
  /\ nmapFindings = <<>>
  /\ attacks = <<>>
  /\ combined = <<>>
  /\ enriched = <<>>

\* The CVE matcher has not been called on technology fingerprints.
MatchIdle ==
  /\ matchInputs = <<>>
  /\ matchPc = "idle"
  /\ cveIndex = <<>>
  /\ suggestions = <<>>

\* No tool adapter is running.
AdapterIdle ==
  /\ adapterInputs = <<>>
  /\ adapterPc = "idle"
  /\ delivered = 0
  /\ collected = <<>>
  /\ adapterPromise = <<>>

\* No single runAttackJob / runVulnJob call is followed.
HostIdle ==
  /\ hostInputs = <<>>
  /\ hostPc = "idle"
  /\ hostProcs = 0
  /\ hostInserted = 0
  /\ hostOutcome = <<>>

Items == 1..MaxTargets

Min(a, b) == IF a < b THEN a ELSE b

\* ------------------------------------------------------------ job_runs
\* startJob: insertOne of a document with status running.
startJob(ok) ==
  IF ok THEN [status |-> "running", stats |-> -1]
        ELSE [status |-> "absent", stats |-> -1]

\* finishJob: updateOne({jobId}, {$set: {status, finishedAt, ...}}); stats is
\* written only when given (-1 stands for undefined). A failed update changes
\* nothing.
finishJob(doc, status, stats, ok) ==
  IF ok /\ doc.status # "absent"
  THEN [status |-> status, stats |-> IF stats = -1 THEN doc.stats ELSE stats]
  ELSE doc

\* ------------------------------------------------------------ stage operation
RECURSIVE SeqToBag(_)
SeqToBag(s) ==
  IF s = <<>> THEN EmptyBag ELSE SetToBag({Head(s)}) (+) SeqToBag(Tail(s))

\* normalizedResults = aliveHosts.map(host => ({targetId, subdomain, ...}))
normalizedResults(target, hosts) ==
  [k \in 1..Len(hosts) |-> [targetId |-> target, subdomain |-> hostname(hosts[k])]]

\* The try block of runReconJob after the tools have run: insertMany of the
\* mapped records, then updateOne of the target; any error is caught, logged,
\* and discoveredHosts (assigned after insertMany) is returned.
reconPersist(target, hosts, insertOk, updateOk) ==
  IF Len(hosts) > 0 /\ ~insertOk
  THEN [value |-> 0, docs |-> <<>>, error |-> "insertMany"]
  ELSE [value |-> Len(hosts),
        docs  |-> normalizedResults(target, hosts),
        error |-> IF updateOk THEN "none" ELSE "updateOne"]

\* The try block of runAttackJob after Promise.all of the six templates:
\* totalAttacks is assigned before insertMany; any error is caught and logged.
attackPersist(n, insertOk) ==
  IF n > 0 /\ ~insertOk
  THEN [value |-> n, docs |-> 0, error |-> "insertMany"]
  ELSE [value |-> n, docs |-> n, error |-> "none"]

\* The scope guard of runAttackJob: a missing target or a program outside the
\* three platforms returns 0 before anything is started.
attackSkips(kind) == kind # "bounty"

\* ------------------------------------------------------------ worker promise
\* .then(result => { completed++; totalHosts += result; return result })
onFulfilled(result, c, t) ==
  [status |-> "fulfilled", value |-> result, completed |-> c + 1, totalHosts |-> t + result]

\* Variant: the chain has no catch, so the rejection stays on the worker promise.
onRejectedNoCatch(c, t) ==
  [status |-> "rejected", value |-> 0, completed |-> c, totalHosts |-> t]

\* Variant: the catch handler forgets completed++.
onRejectedNoCount(c, t) ==
  [status |-> "fulfilled", value |-> 0, completed |-> c, totalHosts |-> t]

\* .catch(error => { completed++; return 0 })
onRejected(c, t) ==
  [status |-> "fulfilled", value |-> 0, completed |-> c + 1, totalHosts |-> t]

\* operation.then(onFulfilled).catch(onRejected)
workerChain(outcome, c, t) ==
  IF outcome.status = "fulfilled" THEN onFulfilled(outcome.value, c, t)
                                  ELSE onRejected(c, t)

Settled(i) == workerPromise[i].status # "pending"

\* Variant: the loop takes the first slot without waiting for it to settle.
promiseRaceFirstSlot(ws, wp) == IF Len(ws) = 0 THEN 0 ELSE 1

\* Promise.race(workers.map((w, index) => w.then(() => index).catch(() => index)))
\* at the moment it is called: the reactions of already settled workers are
\* queued in slot order, so the lowest settled slot wins; 0 = still pending.
promiseRace(ws, wp) ==
  LET done == {s \in 1..Len(ws) : wp[ws[s]].status # "pending"}
  IN IF done = {} THEN 0 ELSE CHOOSE s \in done : \A r \in done : s <= r

\* finalResults.reduce((sum, r) => sum + (r.status === 'fulfilled' ? r.value : 0), 0)
RECURSIVE reduceSum(_, _)
reduceSum(ws, wp) ==
  IF ws = <<>> THEN 0
  ELSE (IF wp[Head(ws)].status = "fulfilled" THEN wp[Head(ws)].value ELSE 0)
       + reduceSum(Tail(ws), wp)

\* Variant: Promise.race / Promise.any where Promise.allSettled is meant.
allSettledAny(ws, wp) ==
  Len(ws) = 0 \/ \E s \in 1..Len(ws) : wp[ws[s]].status # "pending"

\* Promise.allSettled(workers) resolves once every promise in the array settled.
allSettled(ws, wp) == \A s \in 1..Len(ws) : wp[ws[s]].status # "pending"

SlotOf(i) == CHOOSE s \in 1..Len(workers) : workers[s] = i

\* A stage operation settles: its worker chain runs in the same turn.  The
\* operation of the hung item never does.
Settle(i, outcome) ==
  LET w == workerChain(outcome, completed, totalHosts) IN
  /\ i # hung
  /\ itemPc' = [itemPc EXCEPT ![i] = "settled"]
  /\ opPromise' = [opPromise EXCEPT ![i] = outcome.status]
  /\ workerPromise' = [workerPromise EXCEPT ![i] = [status |-> w.status, value |-> w.value]]
  /\ completed' = w.completed
  /\ totalHosts' = w.totalHosts
  /\ raceWinner' = IF pc = "race" /\ raceWinner = 0 THEN SlotOf(i) ELSE raceWinner

\* ------------------------------------------------------------ initial state
NoItems == [i \in Items |-> "pending"]

Begin(hungItem) ==
  /\ stage \in Stages
  /\ targets \in 0..MaxTargets
  /\ maxConcurrent \in 1..MaxConcurrent
  /\ hung = hungItem
  /\ mainPc = "start"
  /\ mainPromise = "pending"
  /\ job = [status |-> "absent", stats |-> -1]
  /\ finishLog = <<>>
  /\ pc = "idle"
  /\ workers = <<>>
  /\ currentIndex = 0
  /\ completed = 0
  /\ totalHosts = 0
  /\ raceWinner = 0
  /\ totalDiscovered = -1
  /\ itemPc = NoItems
  /\ opPromise = NoItems
  /\ workerPromise = [i \in Items |-> [status |-> "pending", value |-> 0]]
  /\ aliveHosts = [i \in Items |-> <<>>]
  /\ allAttacks = [i \in Items |-> 0]
  /\ procs = [i \in Items |-> 0]
  /\ storeError = [i \in Items |-> "none"]
  /\ dispatchLog = <<>>
  /\ recon_results = EmptyBag
  /\ vulnerabilities = EmptyBag
  /\ ScopeIdle
  /\ NormIdle
  /\ VulnIdle
  /\ MatchIdle
  /\ AdapterIdle
  /\ HostIdle

\* Every stage operation settles.
Init == Begin(0)

poolVars == << pc, workers, currentIndex, completed, totalHosts, raceWinner,
               totalDiscovered, itemPc, opPromise, workerPromise, dispatchLog >>

itemVars == << aliveHosts, allAttacks, procs, storeError, recon_results, vulnerabilities >>

inputVars == << stage, targets, maxConcurrent, hung >>

jobVars == << job, finishLog >>

\* ------------------------------------------------------------ main
\* const job = await startJob(db, ...): a failing insertOne rejects main before
\* the try block, with no JobRun created.
StartJob ==
  /\ mainPc = "start"
  /\ \E ok \in BOOLEAN :
       /\ job' = startJob(ok)
       /\ UNCHANGED finishLog
       /\ mainPc' = IF ok THEN "find" ELSE "done"
       /\ mainPromise' = IF ok THEN "pending" ELSE "rejected"
  /\ UNCHANGED << inputVars, poolVars, itemVars, scopeVars, normVars, vulnVars, matchVars, adapterVars, hostVars >>

\* Variant: the first loop starts a worker for every item, whatever the limit.
initialBatchAll(n, limit) == [s \in 1..n |-> s]

\* The first loop of the pool: min(maxConcurrent, length) workers, each behind
\* its setTimeout(i * stagger).
initialBatch(n, limit) == [s \in 1..Min(limit, n) |-> s]

\* The find(...).toArray() of main succeeds and main calls the pool, which runs
\* its first loop and reaches its first await.
FindItems ==
  /\ mainPc = "find"
  /\ mainPc' = "pool"
  /\ workers' = initialBatch(targets, maxConcurrent)
  /\ currentIndex' = Len(workers')
  /\ dispatchLog' = workers'
  /\ itemPc' = [i \in Items |-> IF i <= Len(workers') THEN "delayed" ELSE "pending"]
  /\ pc' = IF currentIndex' < targets THEN "race" ELSE "final"
  /\ raceWinner' = IF currentIndex' < targets THEN promiseRace(workers', workerPromise) ELSE 0
  /\ UNCHANGED << inputVars, mainPromise, jobVars, completed, totalHosts, totalDiscovered,
                  opPromise, workerPromise, itemVars, scopeVars, normVars, vulnVars, matchVars, adapterVars, hostVars >>

\* The find of main throws: control goes to the catch block.
FindItemsFails ==
  /\ mainPc = "find"
  /\ mainPc' = "catch"
  /\ UNCHANGED << inputVars, mainPromise, jobVars, poolVars, itemVars, scopeVars, normVars, vulnVars, matchVars, adapterVars, hostVars >>

\* Variant: a statement after finishJob inside the try block throws, so the
\* catch block runs although success was written.
afterFinishSuccessThrows(ok) == "catch"

\* Where main goes after its finishJob(..., 'success', ...): to the end of the
\* try block, or to the catch block when the update threw.
afterFinishSuccess(ok) == IF ok THEN "done" ELSE "catch"

\* await finishJob(db, job, 'success', {..., hostsInserted: totalHosts}); an
\* update that throws is caught by the catch block of main.
FinishSuccess ==
  /\ mainPc = "pool"
  /\ pc = "returned"
  /\ \E ok \in BOOLEAN :
       /\ job' = finishJob(job, "success", totalDiscovered, ok)
       /\ finishLog' = Append(finishLog, [status |-> "success", ok |-> ok])
       /\ mainPc' = afterFinishSuccess(ok)
       /\ mainPromise' = IF mainPc' = "done" THEN "fulfilled" ELSE "pending"
  /\ UNCHANGED << inputVars, poolVars, itemVars, scopeVars, normVars, vulnVars, matchVars, adapterVars, hostVars >>

\* catch (error) { await finishJob(db, job, 'failed', undefined, error); throw error }
FinishFailed ==
  /\ mainPc = "catch"
  /\ \E ok \in BOOLEAN :
       /\ job' = finishJob(job, "failed", -1, ok)
       /\ finishLog' = Append(finishLog, [status |-> "failed", ok |-> ok])
  /\ mainPc' = "done"
  /\ mainPromise' = "rejected"
  /\ UNCHANGED << inputVars, poolVars, itemVars, scopeVars, normVars, vulnVars, matchVars, adapterVars, hostVars >>

\* ------------------------------------------------------------ worker pool
\* The setTimeout of an initial worker fires and the stage operation starts;
\* timers with delays 0, d, 2d, ... fire in that order.
TimerFires(i) ==
  /\ itemPc[i] = "delayed"
  /\ \A j \in 1..(i - 1) : itemPc[j] # "delayed"
  /\ itemPc' = [itemPc EXCEPT ![i] = "running"]
  /\ UNCHANGED << inputVars, mainPc, mainPromise, jobVars, pc, workers, currentIndex,
                  completed, totalHosts, raceWinner, totalDiscovered, opPromise,
                  workerPromise, dispatchLog, itemVars, scopeVars, normVars, vulnVars, matchVars, adapterVars, hostVars >>

\* Variant: targets[currentIndex - 1], the item dispatched last, is taken again.
nextItemStale(index) == IF index = 0 THEN 1 ELSE index

\* const target = targets[currentIndex++]
nextItem(index) == index + 1

\* The body of the while loop after Promise.race has resolved: the next item
\* starts at once in the slot the race named, and the loop either calls
\* Promise.race again or falls through to Promise.allSettled.
RaceResumes ==
  /\ pc = "race"
  /\ raceWinner # 0
  /\ LET item == nextItem(currentIndex) IN
       /\ workers' = [workers EXCEPT ![raceWinner] = item]
       /\ currentIndex' = currentIndex + 1
       /\ itemPc' = [itemPc EXCEPT ![item] = "running"]
       /\ dispatchLog' = Append(dispatchLog, item)
  /\ pc' = IF currentIndex' < targets THEN "race" ELSE "final"
  /\ raceWinner' = IF currentIndex' < targets THEN promiseRace(workers', workerPromise) ELSE 0
  /\ UNCHANGED << inputVars, mainPc, mainPromise, jobVars, completed, totalHosts,
                  totalDiscovered, opPromise, workerPromise, itemVars, scopeVars, normVars, vulnVars, matchVars, adapterVars, hostVars >>

\* await Promise.allSettled(workers), the reduce over its results, and return.
PoolReturns ==
  /\ pc = "final"
  /\ allSettled(workers, workerPromise)
  /\ totalDiscovered' = reduceSum(workers, workerPromise)
  /\ pc' = "returned"
  /\ UNCHANGED << inputVars, mainPc, mainPromise, jobVars, workers, currentIndex, completed,
                  totalHosts, raceWinner, itemPc, opPromise, workerPromise, dispatchLog,
                  itemVars, scopeVars, normVars, vulnVars, matchVars, adapterVars, hostVars >>

poolFrame == << inputVars, mainPc, mainPromise, jobVars, pc, workers, currentIndex,
                totalDiscovered, dispatchLog, scopeVars, normVars, vulnVars, matchVars, adapterVars, hostVars >>

\* ------------------------------------------------------------ stage operations
\* await ensureDir(rawDir) stands before the try block of runReconJob and of
\* runAttackJob: a failing mkdir rejects the stage operation.
EnsureDirFails(i) ==
  /\ itemPc[i] = "running"
  /\ Settle(i, [status |-> "rejected", value |-> 0])
  /\ UNCHANGED << poolFrame, itemVars >>

\* runSubfinder and runHttpx have resolved (they resolve on close and on error).
ReconProbe(i) ==
  /\ stage = "recon"
  /\ itemPc[i] = "running"
  /\ \E out \in HttpxOutputs : aliveHosts' = [aliveHosts EXCEPT ![i] = out]
  /\ itemPc' = [itemPc EXCEPT ![i] = "persist"]
  /\ UNCHANGED << poolFrame, completed, totalHosts, raceWinner, opPromise, workerPromise,
                  allAttacks, procs, storeError, recon_results, vulnerabilities >>

\* insertMany, updateOne, the catch of runReconJob and its return.
ReconPersist(i) ==
  /\ stage = "recon"
  /\ itemPc[i] = "persist"
  /\ \E insertOk, updateOk \in BOOLEAN :
       LET r == reconPersist(i, aliveHosts[i], insertOk, updateOk) IN
         /\ recon_results' = recon_results (+) SeqToBag(r.docs)
         /\ storeError' = [storeError EXCEPT ![i] = r.error]
         /\ Settle(i, [status |-> "fulfilled", value |-> r.value])
  /\ aliveHosts' = [aliveHosts EXCEPT ![i] = <<>>]
  /\ UNCHANGED << poolFrame, allAttacks, procs, vulnerabilities >>

\* The two findOne calls of runAttackJob stand before its try block: a failing
\* read rejects the stage operation.
AttackLookupFails(i) ==
  /\ stage = "attack"
  /\ itemPc[i] = "running"
  /\ Settle(i, [status |-> "rejected", value |-> 0])
  /\ UNCHANGED << poolFrame, itemVars >>

\* The templates Promise.all starts in one turn: performNucleiAttacks,
\* ...XssAttacks, ...PathDiscovery, ...AuthBypass, ...SSRFAttacks and
\* ...InjectionAttacks, each spawning its nuclei process at once.
Templates == 6

\* The reads succeed: an out-of-scope host returns 0, an in-scope host starts
\* the six templates.
AttackLookup(i) ==
  /\ stage = "attack"
  /\ itemPc[i] = "running"
  /\ \E kind \in TargetKinds :
       IF attackSkips(kind)
       THEN /\ Settle(i, [status |-> "fulfilled", value |-> 0])
            /\ UNCHANGED procs
       ELSE /\ itemPc' = [itemPc EXCEPT ![i] = "attacking"]
            /\ procs' = [procs EXCEPT ![i] = Templates]
            /\ UNCHANGED << completed, totalHosts, raceWinner, opPromise, workerPromise >>
  /\ UNCHANGED << poolFrame, aliveHosts, allAttacks, storeError, recon_results, vulnerabilities >>

\* One template process of the host closes while others of it still run.
ProcessCloses(i) ==
  /\ stage = "attack"
  /\ itemPc[i] = "attacking"
  /\ procs[i] > 1
  /\ procs' = [procs EXCEPT ![i] = @ - 1]
  /\ UNCHANGED << poolFrame, completed, totalHosts, raceWinner, itemPc, opPromise,
                  workerPromise, aliveHosts, allAttacks, storeError, recon_results,
                  vulnerabilities >>

\* The template processes still running have closed and Promise.all of the
\* six template runs has resolved.
AttackTemplates(i) ==
  /\ stage = "attack"
  /\ itemPc[i] = "attacking"
  /\ \E n \in 0..MaxAttacks : allAttacks' = [allAttacks EXCEPT ![i] = n]
  /\ procs' = [procs EXCEPT ![i] = 0]
  /\ itemPc' = [itemPc EXCEPT ![i] = "persist"]
  /\ UNCHANGED << poolFrame, completed, totalHosts, raceWinner, opPromise, workerPromise,
                  aliveHosts, storeError, recon_results, vulnerabilities >>

\* insertMany of the attacks, the catch of runAttackJob and its return.
AttackPersist(i) ==
  /\ stage = "attack"
  /\ itemPc[i] = "persist"
  /\ \E insertOk \in BOOLEAN :
       LET r == attackPersist(allAttacks[i], insertOk) IN
         /\ vulnerabilities' =
              IF r.docs > 0 THEN vulnerabilities (+) [d \in {i} |-> r.docs]
                            ELSE vulnerabilities
         /\ storeError' = [storeError EXCEPT ![i] = r.error]
         /\ Settle(i, [status |-> "fulfilled", value |-> r.value])
  /\ allAttacks' = [allAttacks EXCEPT ![i] = 0]
  /\ UNCHANGED << poolFrame, aliveHosts, procs, recon_results >>

\* ------------------------------------------------------------ specification
Next ==
  \/ StartJob
  \/ FindItems
  \/ FindItemsFails
  \/ FinishSuccess
  \/ FinishFailed
  \/ RaceResumes
  \/ PoolReturns
  \/ \E i \in Items : TimerFires(i)
  \/ \E i \in Items : EnsureDirFails(i)
  \/ \E i \in Items : ReconProbe(i)
  \/ \E i \in Items : ReconPersist(i)
  \/ \E i \in Items : AttackLookupFails(i)
  \/ \E i \in Items : AttackLookup(i)
  \/ \E i \in Items : AttackTemplates(i)
  \/ \E i \in Items : AttackPersist(i)

Spec == Init /\ [][Next]_vars

\* ================================================================ properties
InFlight == {i \in Items : itemPc[i] \in {"delayed", "running", "attacking", "persist"}}

SettledItems == {i \in Items : itemPc[i] = "settled"}

PendingItems == {i \in 1..targets : itemPc[i] = "pending"}

\* The value the stage operation of item i came to (0 when it failed).
RECURSIVE SumResults(_)
SumResults(n) == IF n = 0 THEN 0 ELSE workerPromise[n].value + SumResults(n - 1)

PoolRunning == pc \in {"race", "final"}

\* C1: at every moment the number of items that were dispatched into a slot
\* and have not settled is at most maxConcurrent.
C1_InFlightAtMostLimit == Cardinality(InFlight) <= maxConcurrent

\* C1 witness: the pool is full again after a replacement entered a freed slot.
C1_Witness ==
  /\ maxConcurrent >= 2
  /\ currentIndex > Len(workers)
  /\ Cardinality(InFlight) = maxConcurrent
  /\ SettledItems # {}

\* C2: the value the pool returns is the sum of the results of all items
\* (failed ones counting 0), equals the running total, and is the figure that
\* finishJob stores in the JobRun stats.
C2_ReturnsSumOfAllItems ==
  /\ pc = "returned" =>
       /\ totalDiscovered = SumResults(targets)
       /\ totalDiscovered = totalHosts
  /\ job.status = "success" => job.stats = SumResults(targets)

\* C3: a stage operation that rejects is caught at its worker: the worker
\* promise fulfils with 0, the pool keeps going while it is running, and when
\* it returns every item of the batch has been dispatched and has settled.
C3_FailureIsolated ==
  /\ \A i \in Items : opPromise[i] = "rejected" =>
       workerPromise[i] = [status |-> "fulfilled", value |-> 0]
  /\ \A i \in Items : itemPc[i] = "settled" => workerPromise[i].status = "fulfilled"
  /\ PoolRunning =>
       \/ InFlight # {}
       \/ ENABLED RaceResumes
       \/ ENABLED PoolReturns
  /\ pc = "returned" =>
       /\ \A i \in 1..targets : itemPc[i] = "settled"
       /\ totalDiscovered >= 0

\* C3 witness: the pool returned although an item of the initial batch and a
\* replacement both failed, and a sibling produced a result.
C3_Witness ==
  /\ pc = "returned"
  /\ \E i \in 1..Len(workers) : opPromise[i] = "rejected"
  /\ \E j \in (Len(workers) + 1)..targets : opPromise[j] = "rejected"
  /\ \E k \in 1..targets : workerPromise[k].value > 0

C4_CompletedCountsSettled ==
  /\ completed = Cardinality(SettledItems)
  /\ completed <= targets
  /\ pc = "returned" => completed = targets

C4_CompletedStep ==
  /\ completed' >= completed
  /\ completed' - completed =
       Cardinality({i \in Items : itemPc[i] # "settled" /\ itemPc'[i] = "settled"})
  /\ \A i \in Items : itemPc[i] = "settled" => itemPc'[i] = "settled"

\* C4: completed never decreases, grows by exactly one when an item settles
\* (fulfilled or rejected), never exceeds the number of items and equals it
\* when the pool returns.
C4_CompletedCounter == []C4_CompletedCountsSettled /\ [][C4_CompletedStep]_vars

\* C4 witness: the pool returned after counting a failed and a successful item.
C4_Witness ==
  /\ pc = "returned"
  /\ completed = targets
  /\ \E i \in 1..targets : opPromise[i] = "rejected"
  /\ \E i \in 1..targets : opPromise[i] = "fulfilled"

\* C5: the pool returns only when every item has been dispatched and has
\* settled, replacements included.
C5_ReturnsAfterAllSettled ==
  pc = "returned" =>
    /\ currentIndex = targets
    /\ InFlight = {}
    /\ PendingItems = {}
    /\ \A i \in 1..targets : Settled(i)

\* C5 witness: a return after replacements entered freed slots.
C5_Witness ==
  /\ pc = "returned"
  /\ targets > maxConcurrent
  /\ maxConcurrent >= 2

Lowest(S) == CHOOSE i \in S : \A j \in S : i <= j

C6_DispatchedInInputOrder ==
  /\ dispatchLog = [k \in 1..currentIndex |-> k]
  /\ \A s \in 1..Len(workers) : workers[s] \in 1..currentIndex
  /\ \A i \in 1..targets : (i > currentIndex) <=> (itemPc[i] = "pending")
  /\ pc = "returned" => currentIndex = targets

C6_ReplacementStep ==
  \A s \in 1..Len(workers) :
    workers'[s] # workers[s] =>
      /\ Settled(workers[s])
      /\ PendingItems # {}
      /\ workers'[s] = Lowest(PendingItems)
      /\ itemPc'[workers'[s]] = "running"

\* C6: a freed slot receives the lowest-index item not yet dispatched, the
\* slot is one whose previous item has settled, and every item is dispatched
\* exactly once, in input order.
C6_DispatchOrder == []C6_DispatchedInInputOrder /\ [][C6_ReplacementStep]_vars

\* C6 witness: items completed out of input order (a later slot was freed
\* first) and every item was dispatched.
C6_Witness ==
  /\ pc = "returned"
  /\ targets > maxConcurrent
  /\ maxConcurrent >= 2
  /\ workers[1] = 1
  /\ workers[2] = targets

OkWrites == {k \in 1..Len(finishLog) : finishLog[k].ok}

JobCreated == job.status # "absent"

\* C7 (as claimed): a JobRun is running from stage start, its status is
\* written exactly once, to success or to failed, and a driver that has
\* terminated does not leave it in running.
C7_OneTransitionAlways ==
  /\ mainPc \in {"find", "pool"} => job.status = "running"
  /\ Cardinality(OkWrites) <= 1
  /\ (mainPc = "done" /\ JobCreated) => job.status \in {"success", "failed"}

\* C7 (amended): a JobRun is running from stage start; its status is written
\* at most once, to success or to failed, by the one finishJob update that
\* went through, and never again; a driver that has terminated leaves it in
\* running exactly when its last call, finishJob(..., 'failed', ...), failed
\* against the store, and main then rejects.
C7_AtMostOneTransition ==
  /\ mainPc \in {"find", "pool"} => job.status = "running"
  /\ Cardinality(OkWrites) <= 1
  /\ job.status = "running" => OkWrites = {}
  /\ job.status \in {"success", "failed"} =>
       \E k \in OkWrites : finishLog[k].status = job.status
  /\ job.status = "success" => mainPc = "done" /\ mainPromise = "fulfilled"
  /\ (mainPc = "done" /\ JobCreated) =>
       (job.status = "running" <=>
          /\ finishLog # <<>>
          /\ finishLog[Len(finishLog)] = [status |-> "failed", ok |-> FALSE]
          /\ mainPromise = "rejected")

\* C7 witness: the driver has terminated after a failed success update and a
\* failed 'failed' update, and the JobRun still says running.
C7_Witness ==
  /\ mainPc = "done"
  /\ job.status = "running"
  /\ Len(finishLog) = 2

\* C8: when an insert or update fails inside the stage operation of an item,
\* the enclosing JobRun does not end with status success.
C8_PersistenceErrorFailsJob ==
  (mainPc = "done" /\ \E i \in 1..targets : storeError[i] # "none") =>
    job.status # "success"

\* C10: recon_results never holds two documents with the same targetId and
\* the same subdomain.
C10_HostRecordsUnique ==
  \A d \in BagToSet(recon_results) : CopiesIn(d, recon_results) = 1

\* ================================================================ scope intake
\* Longest batch of normalized targets one scope-intake run upserts.
MaxBatch == 2

\* The two scope-intake runs that share the store.
Runs == {1, 2}

Target(program, value) == [program |-> program, value |-> value]

\* Candidate targets; program ids and asset values may both contain ':'.
TargetUniverse ==
  { Target("hackerone:acme", "8080"),
    Target("hackerone", "acme:8080"),
    Target("hackerone", "8080") }

Batches == UNION {[1..n -> TargetUniverse] : n \in 0..MaxBatch}

\* `${target.program}:${target.asset.value ?? ''}`
targetKey(t) == t.program \o ":" \o t.value

\* new Set(existingDocs.map(doc => `${doc.program}:${doc.asset?.value ?? ''}`))
keysOf(coll) == {targetKey(d) : d \in BagToSet(coll)}

\* The for loop of upsertTargets: a target whose key is known is skipped, any
\* other is pushed to fresh and its key remembered.
RECURSIVE freshTargets(_, _)
freshTargets(batch, keys) ==
  IF batch = <<>> THEN <<>>
  ELSE IF targetKey(Head(batch)) \in keys
       THEN freshTargets(Tail(batch), keys)
       ELSE <<Head(batch)>> \o freshTargets(Tail(batch), keys \cup {targetKey(Head(batch))})

\* No stage driver runs: main of recon.ts / of the attack driver is not started.
StageIdle ==
  /\ stage = "recon"
  /\ targets = 0
  /\ maxConcurrent = 1
  /\ hung = 0
  /\ mainPc = "start"
  /\ mainPromise = "pending"
  /\ job = [status |-> "absent", stats |-> -1]
  /\ finishLog = <<>>
  /\ pc = "idle"
  /\ workers = <<>>
  /\ currentIndex = 0
  /\ completed = 0
  /\ totalHosts = 0
  /\ raceWinner = 0
  /\ totalDiscovered = -1
  /\ itemPc = NoItems
  /\ opPromise = NoItems
  /\ workerPromise = [i \in Items |-> [status |-> "pending", value |-> 0]]
  /\ aliveHosts = [i \in Items |-> <<>>]
  /\ allAttacks = [i \in Items |-> 0]
  /\ procs = [i \in Items |-> 0]
  /\ storeError = [i \in Items |-> "none"]
  /\ dispatchLog = <<>>
  /\ recon_results = EmptyBag
  /\ vulnerabilities = EmptyBag

ScopeInit ==
  /\ StageIdle
  /\ targetsColl = EmptyBag
  /\ scopePc = [r \in Runs |-> "start"]
  /\ scopeBatch \in [Runs -> Batches]
  /\ existingKeys = [r \in Runs |-> {}]
  /\ scopeJob = [r \in Runs |-> [status |-> "absent", stats |-> -1]]
  /\ NormIdle
  /\ VulnIdle
  /\ MatchIdle
  /\ AdapterIdle
  /\ HostIdle

\* const job = await startJob(db, 'scope-intake', 'cli')
ScopeStartJob(r) ==
  /\ scopePc[r] = "start"
  /\ \E ok \in BOOLEAN :
       /\ scopeJob' = [scopeJob EXCEPT ![r] = startJob(ok)]
       /\ scopePc' = [scopePc EXCEPT ![r] = IF ok THEN "intake" ELSE "done"]
  /\ UNCHANGED << stageVars, normVars, vulnVars, matchVars, adapterVars, hostVars, targetsColl, scopeBatch, existingKeys >>

\* getSourceData, persistRaw and normalizeAllPlatforms; then upsertTargets
\* returns at once for an empty batch and issues its find otherwise. A throw
\* of persistRaw or of the normalizer goes to the catch block.
ScopeIntake(r) ==
  /\ scopePc[r] = "intake"
  /\ \E ok \in BOOLEAN :
       scopePc' = [scopePc EXCEPT ![r] =
                     IF ~ok THEN "catch"
                     ELSE IF Len(scopeBatch[r]) = 0 THEN "finish" ELSE "find"]
  /\ UNCHANGED << stageVars, normVars, vulnVars, matchVars, adapterVars, hostVars, targetsColl, scopeBatch, existingKeys, scopeJob >>

\* await collection.find({}, {projection}).toArray(): the keys present in the
\* store at this moment.
ScopeFind(r) ==
  /\ scopePc[r] = "find"
  /\ \E ok \in BOOLEAN :
       /\ existingKeys' = [existingKeys EXCEPT ![r] = IF ok THEN keysOf(targetsColl) ELSE @]
       /\ scopePc' = [scopePc EXCEPT ![r] = IF ok THEN "insert" ELSE "catch"]
  /\ UNCHANGED << stageVars, normVars, vulnVars, matchVars, adapterVars, hostVars, targetsColl, scopeBatch, scopeJob >>

\* The loop over the batch and `if (fresh.length) await collection.insertMany(fresh)`.
ScopeInsert(r) ==
  /\ scopePc[r] = "insert"
  /\ LET fresh == freshTargets(scopeBatch[r], existingKeys[r]) IN
       \E ok \in BOOLEAN :
         /\ targetsColl' = IF ok /\ fresh # <<>> THEN targetsColl (+) SeqToBag(fresh)
                                              ELSE targetsColl
         /\ scopePc' = [scopePc EXCEPT ![r] = IF ok \/ fresh = <<>> THEN "finish" ELSE "catch"]
  /\ UNCHANGED << stageVars, normVars, vulnVars, matchVars, adapterVars, hostVars, scopeBatch, existingKeys, scopeJob >>

\* { inserted: fresh.length, skipped } as upsertTargets returns it.
upsertStats(batch, keys) == Len(freshTargets(batch, keys))

\* await finishJob(db, job, 'success', stats)
ScopeFinish(r) ==
  /\ scopePc[r] = "finish"
  /\ \E ok \in BOOLEAN :
       /\ scopeJob' = [scopeJob EXCEPT ![r] =
                        finishJob(@, "success", upsertStats(scopeBatch[r], existingKeys[r]), ok)]
       /\ scopePc' = [scopePc EXCEPT ![r] = afterFinishSuccess(ok)]
  /\ UNCHANGED << stageVars, normVars, vulnVars, matchVars, adapterVars, hostVars, targetsColl, scopeBatch, existingKeys >>

\* catch (error) { await finishJob(db, job, 'failed', undefined, error); throw error }
ScopeCatch(r) ==
  /\ scopePc[r] = "catch"
  /\ \E ok \in BOOLEAN :
       scopeJob' = [scopeJob EXCEPT ![r] = finishJob(@, "failed", -1, ok)]
  /\ scopePc' = [scopePc EXCEPT ![r] = "done"]
  /\ UNCHANGED << stageVars, normVars, vulnVars, matchVars, adapterVars, hostVars, targetsColl, scopeBatch, existingKeys >>

ScopeNext ==
  \/ \E r \in Runs : ScopeStartJob(r)
  \/ \E r \in Runs : ScopeIntake(r)
  \/ \E r \in Runs : ScopeFind(r)
  \/ \E r \in Runs : ScopeInsert(r)
  \/ \E r \in Runs : ScopeFinish(r)
  \/ \E r \in Runs : ScopeCatch(r)

SpecScope == ScopeInit /\ [][ScopeNext]_vars

\* C9: no two documents of the targets collection share (program, asset.value).
C9_TargetsUnique ==
  \A d \in BagToSet(targetsColl) : CopiesIn(d, targetsColl) = 1

\* ================================================================ result normalizer
\* recon/normalize.ts (part_003): normalizeRecon folds the payloads of subfinder,
\* amass, httpx and securitytrails into one record per host.

\* Calls of normalizeRecon made on the same inputs.
MaxCalls == 2

\* Host names as the tools report them; the two differ in case only.
NormHosts == {"a.io", "A.io"}

\* An optional string that is missing, and an empty one, are both "": every
\* test the normalizer applies to such a field is a truthiness test or ??.
Omitted == [given |-> FALSE, data |-> <<>>]

Given(data) == [given |-> TRUE, data |-> data]

\* Entries of a payload; typed = FALSE is an entry the source's zod schema
\* rejects (a required field missing or of the wrong type).
SubfinderEntry(typed, host, source, ip) ==
  [typed |-> typed, host |-> host, source |-> source, ip |-> ip]

AmassNode(typed, name, addresses, sources) ==
  [typed |-> typed, name |-> name, addresses |-> addresses, sources |-> sources]

HttpxEntry(typed, host, port, scheme, status_code, title, webserver, tech, a) ==
  [typed |-> typed, host |-> host, port |-> port, scheme |-> scheme,
   status_code |-> status_code, title |-> title, webserver |-> webserver,
   tech |-> tech, a |-> a]

PortEntry(port, protocol, service) ==
  [port |-> port, protocol |-> protocol, service |-> service]

SecuritytrailsRecord(typed, name, organization, country, ports) ==
  [typed |-> typed, hostname |-> name, organization |-> organization,
   country |-> country, ports |-> ports]

SubfinderPayloads ==
  LET s1 == SubfinderEntry(TRUE, "a.io", "crt", "1.1.1.1")
      s2 == SubfinderEntry(TRUE, "A.io", "", "")
      sBad == SubfinderEntry(FALSE, "a.io", "crt", "9.9.9.9")
  IN { Omitted, Given(<<>>), Given(<<s1>>), Given(<<s2, s1>>), Given(<<s1, sBad>>) }

AmassPayloads ==
  LET n1 == AmassNode(TRUE, "a.io", <<"2.2.2.2", "1.1.1.1">>, <<"dns">>)
      n2 == AmassNode(TRUE, "A.io", <<>>, <<"crt">>)
      nBad == AmassNode(FALSE, "A.io", <<"9.9.9.9">>, <<"dns">>)
  IN { Omitted, Given(<<n1>>), Given(<<n2, n1>>), Given(<<n1, nBad>>) }

\* h3 carries port 0, which httpxSchema accepts (z.number()) and portSchema
\* does not.
HttpxPayloads ==
  LET h1 == HttpxEntry(TRUE, "a.io", 443, "https", 200, "Home", "nginx",
                       <<"nginx">>, <<"1.1.1.1">>)
      h2 == HttpxEntry(TRUE, "a.io", 80, "http", 503, "Down", "apache",
                       <<"php", "nginx">>, <<"3.3.3.3">>)
      h3 == HttpxEntry(TRUE, "A.io", 0, "http", 404, "", "", <<>>, <<>>)
      hBad == HttpxEntry(FALSE, "A.io", 8080, "http", 200, "Bad", "iis",
                         <<"iis">>, <<"9.9.9.9">>)
  IN { Omitted, Given(<<h1>>), Given(<<h1, h2>>), Given(<<h2, h1>>), Given(<<h3>>),
       Given(<<h2, hBad>>) }

\* r3 carries the protocol "sctp", which securityTrailsSchema accepts
\* (z.string()) and portSchema does not.
SecuritytrailsPayloads ==
  LET r1 == SecuritytrailsRecord(TRUE, "a.io", "acme", "US", << PortEntry(443, "", "tls") >>)
      r2 == SecuritytrailsRecord(TRUE, "a.io", "", "DE", << PortEntry(22, "udp", "") >>)
      r3 == SecuritytrailsRecord(TRUE, "A.io", "acme", "", << PortEntry(25, "sctp", "smtp") >>)
      rBad == SecuritytrailsRecord(FALSE, "A.io", "evil", "FR", << PortEntry(21, "tcp", "ftp") >>)
  IN { Omitted, Given(<<r1>>), Given(<<r1, r2>>), Given(<<r2, r1>>), Given(<<r3>>),
       Given(<<r1, rBad>>) }

ReconInputs ==
  [subfinder : SubfinderPayloads, amass : AmassPayloads, httpx : HttpxPayloads,
   securitytrails : SecuritytrailsPayloads]

Members(array) == { array[i] : i \in 1..Len(array) }

\* Set.prototype.add: a Set keeps its members in insertion order, once each.
addReplacing(set, x) == <<x>>

add(set, x) == IF x \in Members(set) THEN set ELSE Append(set, x)

\* array.forEach((x) => set.add(x)), left to right.
addAll(set, array) ==
  LET RECURSIVE forEach(_, _)
      forEach(acc, rest) ==
        IF rest = <<>> THEN acc ELSE forEach(add(acc, Head(rest)), Tail(rest))
  IN forEach(set, array)

\* zod safeParse of a payload: success only when every entry matches.
safeParse(payload) == \A e \in Members(payload.data) : e.typed

\* A fresh host record of upsertHost.
HostEntry(host) ==
  [host |-> host, ips |-> <<>>, ports |-> <<>>, tech |-> <<>>, sources |-> <<>>,
   titles |-> <<>>, webservers |-> <<>>, liveness |-> FALSE]

\* hostMap is a Map keyed by the literal host string, in insertion order.
upsertHost(map, host) ==
  IF \E i \in 1..Len(map) : map[i].host = host THEN map ELSE Append(map, HostEntry(host))

at(map, host) == CHOOSE i \in 1..Len(map) : map[i].host = host

\* The locals of one call: const hostMap = new Map(), sourcesMeta = [],
\* countryByHost = new Map().
newLocals ==
  [hostMap |-> <<>>, sourcesMeta |-> <<>>, countryByHost |-> [h \in NormHosts |-> ""]]

prefixed(tool, array) == [i \in 1..Len(array) |-> tool \o ":" \o array[i]]

\* parsed.data.forEach((entry) => ...) of the subfinder block.
subfinderEntry(l, entry) ==
  LET map == upsertHost(l.hostMap, entry.host)
      i == at(map, entry.host)
      h == map[i]
      ips == IF entry.ip # "" THEN add(h.ips, entry.ip) ELSE h.ips
      sources == IF entry.source # ""
                 THEN add(h.sources, "subfinder:" \o entry.source) ELSE h.sources
  IN [l EXCEPT !.hostMap = [map EXCEPT ![i] = [h EXCEPT !.ips = ips, !.sources = sources]]]

\* A payload that fails its schema is skipped whole: no entry is read and the
\* tool is not pushed to sourcesMeta.
readSubfinderAnyway(l, payload) ==
  LET RECURSIVE forEach(_, _)
      forEach(acc, array) ==
        IF array = <<>> THEN acc ELSE forEach(subfinderEntry(acc, Head(array)), Tail(array))
  IN IF payload.given
     THEN forEach([l EXCEPT !.sourcesMeta = Append(@, "subfinder")], payload.data)
     ELSE l

readSubfinder(l, payload) ==
  LET RECURSIVE forEach(_, _)
      forEach(acc, array) ==
        IF array = <<>> THEN acc ELSE forEach(subfinderEntry(acc, Head(array)), Tail(array))
  IN IF payload.given /\ safeParse(payload)
     THEN forEach([l EXCEPT !.sourcesMeta = Append(@, "subfinder")], payload.data)
     ELSE l

\* ensureArray(parsed.data.nodes).forEach((node) => ...) of the amass block.
amassNode(l, node) ==
  LET map == upsertHost(l.hostMap, node.name)
      i == at(map, node.name)
      h == map[i]
  IN [l EXCEPT !.hostMap =
        [map EXCEPT ![i] = [h EXCEPT !.ips = addAll(h.ips, node.addresses),
                                     !.sources = addAll(h.sources,
                                                        prefixed("amass", node.sources))]]]

readAmass(l, payload) ==
  LET RECURSIVE forEach(_, _)
      forEach(acc, array) ==
        IF array = <<>> THEN acc ELSE forEach(amassNode(acc, Head(array)), Tail(array))
  IN IF payload.given /\ safeParse(payload)
     THEN forEach([l EXCEPT !.sourcesMeta = Append(@, "amass")], payload.data)
     ELSE l

\* ports.get(port) ?? {}
getPort(ports, port) ==
  IF \E i \in 1..Len(ports) : ports[i].port = port
  THEN ports[CHOOSE i \in 1..Len(ports) : ports[i].port = port]
  ELSE PortEntry(port, "", "")

\* ports.set(port, info): a Map keeps the position of a key it already has.
setPort(ports, info) ==
  IF \E i \in 1..Len(ports) : ports[i].port = info.port
  THEN [i \in 1..Len(ports) |-> IF ports[i].port = info.port THEN info ELSE ports[i]]
  ELSE Append(ports, info)

\* a ?? b on optional strings.
orElse(a, b) == IF a # "" THEN a ELSE b

\* parsed.data.forEach((entry) => ...) of the httpx block.
httpxEntry(l, entry) ==
  LET map == upsertHost(l.hostMap, entry.host)
      i == at(map, entry.host)
      h == map[i]
      portInfo == getPort(h.ports, entry.port)
  IN [l EXCEPT !.hostMap =
        [map EXCEPT ![i] =
           [h EXCEPT !.liveness = h.liveness \/ entry.status_code < 500,
                     !.titles = IF entry.title # "" THEN add(h.titles, entry.title)
                                ELSE h.titles,
                     !.webservers = IF entry.webserver # ""
                                    THEN add(h.webservers, entry.webserver)
                                    ELSE h.webservers,
                     !.tech = addAll(h.tech, entry.tech),
                     !.ips = addAll(h.ips, entry.a),
                     !.ports = setPort(h.ports,
                                       PortEntry(entry.port,
                                                 orElse(portInfo.protocol, "tcp"),
                                                 orElse(portInfo.service, entry.scheme)))]]]

readHttpx(l, payload) ==
  LET RECURSIVE forEach(_, _)
      forEach(acc, array) ==
        IF array = <<>> THEN acc ELSE forEach(httpxEntry(acc, Head(array)), Tail(array))
  IN IF payload.given /\ safeParse(payload)
     THEN forEach([l EXCEPT !.sourcesMeta = Append(@, "httpx")], payload.data)
     ELSE l

\* ensureArray(record.ports).forEach((portEntry) => ...) of the securitytrails block.
securitytrailsPort(ports, portEntry) ==
  LET info == getPort(ports, portEntry.port)
  IN setPort(ports,
             PortEntry(portEntry.port,
                       IF portEntry.protocol # ""
                       THEN orElse(info.protocol, portEntry.protocol) ELSE info.protocol,
                       IF portEntry.service # ""
                       THEN orElse(info.service, portEntry.service) ELSE info.service))

\* countryByHost.set(host, country): Map.prototype.set replaces the value of a
\* key the map already has.
setOnce(map, host, country) == IF map[host] # "" THEN map ELSE [map EXCEPT ![host] = country]

set(map, host, country) == [map EXCEPT ![host] = country]

\* ensureArray(parsed.data.records).forEach((record) => ...).
securitytrailsRecord(l, record) ==
  LET RECURSIVE forEach(_, _)
      forEach(acc, array) ==
        IF array = <<>> THEN acc
        ELSE forEach(securitytrailsPort(acc, Head(array)), Tail(array))
      map == upsertHost(l.hostMap, record.hostname)
      i == at(map, record.hostname)
      h == map[i]
  IN [l EXCEPT
        !.hostMap =
          [map EXCEPT ![i] =
             [h EXCEPT !.sources = IF record.organization # ""
                                   THEN add(h.sources,
                                            "securitytrails:" \o record.organization)
                                   ELSE h.sources,
                       !.ports = forEach(h.ports, record.ports)]],
        !.countryByHost = IF record.country # ""
                          THEN set(l.countryByHost, record.hostname, record.country)
                          ELSE l.countryByHost]

readSecuritytrails(l, payload) ==
  LET RECURSIVE forEach(_, _)
      forEach(acc, array) ==
        IF array = <<>> THEN acc ELSE forEach(securitytrailsRecord(acc, Head(array)), Tail(array))
  IN IF payload.given /\ safeParse(payload)
     THEN forEach([l EXCEPT !.sourcesMeta = Append(@, "securitytrails")], payload.data)
     ELSE l

\* portSchema of schemas/index.ts, which reconResultBase.parse applies to every
\* emitted port.
portSchema(p) == p.port \in 1..65535 /\ p.protocol \in {"tcp", "udp"}

\* The record hostMap.forEach builds for one entry (timestamps, targetId and
\* runId left out: they do not depend on the payloads).
base(l, entry) ==
  [subdomain |-> entry.host,
   ip |-> IF entry.ips = <<>> THEN "" ELSE entry.ips[1],
   ports |-> [i \in 1..Len(entry.ports) |->
                PortEntry(entry.ports[i].port, orElse(entry.ports[i].protocol, "tcp"),
                          entry.ports[i].service)],
   tech |-> entry.tech,
   fingerprints |-> [titles |-> entry.titles, webservers |-> entry.webservers,
                     country |-> l.countryByHost[entry.host]],
   contributors |-> entry.sources,
   pipeline |-> l.sourcesMeta,
   isAlive |-> entry.liveness]

\* hostMap.forEach(...) and return results; reconResultBase.parse throws out
\* of normalizeRecon on the first record it rejects.
emit(l) ==
  LET results == [i \in 1..Len(l.hostMap) |-> base(l, l.hostMap[i])]
  IN IF \A i \in 1..Len(results) : \A p \in Members(results[i].ports) : portSchema(p)
     THEN [threw |-> FALSE, records |-> results]
     ELSE [threw |-> TRUE, records |-> <<>>]

\* One whole call.
normalizeRecon(inputs) ==
  emit(readSecuritytrails(readHttpx(readAmass(readSubfinder(newLocals, inputs.subfinder),
                                              inputs.amass),
                                    inputs.httpx),
                          inputs.securitytrails))

\* ------------------------------------------------------------ calls of normalizeRecon
Locals == [hostMap |-> hostMap, sourcesMeta |-> sourcesMeta, countryByHost |-> countryByHost]

SetLocals(l) ==
  /\ hostMap' = l.hostMap
  /\ sourcesMeta' = l.sourcesMeta
  /\ countryByHost' = l.countryByHost

\* The caller holds the payloads and calls normalizeRecon MaxCalls times on them.
NormInit ==
  /\ StageIdle
  /\ ScopeIdle
  /\ normInputs \in ReconInputs
  /\ VulnIdle
  /\ MatchIdle
  /\ AdapterIdle
  /\ HostIdle
  /\ normPc = "call"
  /\ hostMap = newLocals.hostMap
  /\ sourcesMeta = newLocals.sourcesMeta
  /\ countryByHost = newLocals.countryByHost
  /\ normResults = <<>>

normFrame == << stageVars, scopeVars, vulnVars, matchVars, adapterVars, hostVars, normInputs >>

\* What a call starts from, given what the previous call left behind: the
\* three locals are created inside the function, so nothing is carried over.
keepLocals(left) == left

createLocals(left) == newLocals

EnterNormalizeRecon ==
  /\ normPc = "call"
  /\ SetLocals(createLocals(Locals))
  /\ normPc' = "subfinder"
  /\ UNCHANGED << normFrame, normResults >>

ReadSubfinder ==
  /\ normPc = "subfinder"
  /\ SetLocals(readSubfinder(Locals, normInputs.subfinder))
  /\ normPc' = "amass"
  /\ UNCHANGED << normFrame, normResults >>

ReadAmass ==
  /\ normPc = "amass"
  /\ SetLocals(readAmass(Locals, normInputs.amass))
  /\ normPc' = "httpx"
  /\ UNCHANGED << normFrame, normResults >>

ReadHttpx ==
  /\ normPc = "httpx"
  /\ SetLocals(readHttpx(Locals, normInputs.httpx))
  /\ normPc' = "securitytrails"
  /\ UNCHANGED << normFrame, normResults >>

ReadSecuritytrails ==
  /\ normPc = "securitytrails"
  /\ SetLocals(readSecuritytrails(Locals, normInputs.securitytrails))
  /\ normPc' = "emit"
  /\ UNCHANGED << normFrame, normResults >>

\* hostMap.forEach(...); return results (or the throw of reconResultBase.parse).
Emit ==
  /\ normPc = "emit"
  /\ normResults' = Append(normResults, emit(Locals))
  /\ normPc' = IF Len(normResults') < MaxCalls THEN "call" ELSE "done"
  /\ UNCHANGED << normFrame, hostMap, sourcesMeta, countryByHost >>

NormNext ==
  \/ EnterNormalizeRecon
  \/ ReadSubfinder
  \/ ReadAmass
  \/ ReadHttpx
  \/ ReadSecuritytrails
  \/ Emit

SpecNormalize == NormInit /\ [][NormNext]_vars

\* ------------------------------------------------------------ normalizer properties
\* What the payloads a call accepts say about a host, read off the inputs.
Accepted(payload) == IF payload.given /\ safeParse(payload) THEN Members(payload.data) ELSE {}

SubfinderOf(host) == { e \in Accepted(normInputs.subfinder) : e.host = host }

AmassOf(host) == { n \in Accepted(normInputs.amass) : n.name = host }

HttpxOf(host) == { e \in Accepted(normInputs.httpx) : e.host = host }

SecuritytrailsOf(host) == { r \in Accepted(normInputs.securitytrails) : r.hostname = host }

ReportedIps(host) ==
  { e.ip : e \in { x \in SubfinderOf(host) : x.ip # "" } }
    \cup UNION { Members(n.addresses) : n \in AmassOf(host) }
    \cup UNION { Members(e.a) : e \in HttpxOf(host) }

ReportedTech(host) == UNION { Members(e.tech) : e \in HttpxOf(host) }

ReportedTags(host) ==
  { "subfinder:" \o e.source : e \in { x \in SubfinderOf(host) : x.source # "" } }
    \cup UNION { Members(prefixed("amass", n.sources)) : n \in AmassOf(host) }
    \cup { "securitytrails:" \o r.organization :
             r \in { x \in SecuritytrailsOf(host) : x.organization # "" } }

LivenessObservations(host) == { e.status_code < 500 : e \in HttpxOf(host) }

\* The records of the calls that returned.
Returned == { k \in 1..Len(normResults) : ~normResults[k].threw }

Records(k) == Members(normResults[k].records)

\* All four source blocks of the running call have been read.
AllRead == normPc \in {"emit", "call", "done"} /\ (normPc = "call" => normResults # <<>>)

\* C11: the merged entry of a host, and the record emitted from it, have the union of the technology names, of
\* the IP addresses (the emitted ip being one of them) and of the
\* "source:detail" tags reported for it, and is alive exactly when some
\* liveness observation of it was alive.
C11_MergeIsUnion ==
  /\ AllRead =>
       \A i \in 1..Len(hostMap) :
         /\ Members(hostMap[i].ips) = ReportedIps(hostMap[i].host)
         /\ Members(hostMap[i].tech) = ReportedTech(hostMap[i].host)
         /\ Members(hostMap[i].sources) = ReportedTags(hostMap[i].host)
         /\ hostMap[i].liveness = (TRUE \in LivenessObservations(hostMap[i].host))
  /\ \A k \in Returned : \A rec \in Records(k) :
       /\ Members(rec.tech) = ReportedTech(rec.subdomain)
       /\ IF ReportedIps(rec.subdomain) = {} THEN rec.ip = ""
          ELSE rec.ip \in ReportedIps(rec.subdomain)
       /\ Members(rec.contributors) = ReportedTags(rec.subdomain)
       /\ rec.isAlive = (TRUE \in LivenessObservations(rec.subdomain))

\* A host reported by three sources, seen alive and then answering 503, with
\* three addresses and two technology names, has been emitted.
C11_Witness ==
  \E k \in Returned : \E rec \in Records(k) :
    /\ Len(rec.pipeline) >= 3
    /\ Cardinality(ReportedIps(rec.subdomain)) >= 3
    /\ Cardinality(ReportedTech(rec.subdomain)) >= 2
    /\ Cardinality(ReportedTags(rec.subdomain)) >= 2
    /\ normInputs.httpx.data[1].status_code < 500
    /\ Len(normInputs.httpx.data) = 2 /\ normInputs.httpx.data[2].status_code >= 500
    /\ rec.isAlive

\* The non-empty titles, webservers and countries reported for a host, in the
\* order the call reads them.
RECURSIVE NonEmpty(_)
NonEmpty(array) ==
  IF array = <<>> THEN <<>>
  ELSE IF Head(array) = "" THEN NonEmpty(Tail(array))
       ELSE <<Head(array)>> \o NonEmpty(Tail(array))

RECURSIVE OfHost(_, _)
OfHost(entries, host) ==
  IF entries = <<>> THEN <<>>
  ELSE IF Head(entries).host = host THEN <<Head(entries)>> \o OfHost(Tail(entries), host)
       ELSE OfHost(Tail(entries), host)

HttpxSeq(host) ==
  IF normInputs.httpx.given /\ safeParse(normInputs.httpx)
  THEN OfHost(normInputs.httpx.data, host) ELSE <<>>

SecuritytrailsSeq(host) ==
  IF normInputs.securitytrails.given /\ safeParse(normInputs.securitytrails)
  THEN OfHost([i \in 1..Len(normInputs.securitytrails.data) |->
                 [host |-> normInputs.securitytrails.data[i].hostname,
                  country |-> normInputs.securitytrails.data[i].country]], host)
  ELSE <<>>

TitlesSeen(host) == NonEmpty([i \in 1..Len(HttpxSeq(host)) |-> HttpxSeq(host)[i].title])

WebserversSeen(host) ==
  NonEmpty([i \in 1..Len(HttpxSeq(host)) |-> HttpxSeq(host)[i].webserver])

CountriesSeen(host) ==
  NonEmpty([i \in 1..Len(SecuritytrailsSeq(host)) |-> SecuritytrailsSeq(host)[i].country])

\* The one value a first-wins scalar would hold, as the list the record carries.
FirstOnly(seen) == IF seen = <<>> THEN <<>> ELSE << seen[1] >>

NoRepeats(array) == \A i, j \in 1..Len(array) : array[i] = array[j] => i = j

\* C12 as stated: title, webserver and country of an emitted record are the
\* first non-empty value seen for the host, and no later value.
C12_FirstValueWins ==
  \A k \in Returned : \A rec \in Records(k) :
    /\ rec.fingerprints.titles = FirstOnly(TitlesSeen(rec.subdomain))
    /\ rec.fingerprints.webservers = FirstOnly(WebserversSeen(rec.subdomain))
    /\ rec.fingerprints.country =
         (IF CountriesSeen(rec.subdomain) = <<>> THEN "" ELSE CountriesSeen(rec.subdomain)[1])

\* C12 (amended): titles and webservers of the merged entry of a host, and of
\* the record emitted from it, are all the distinct non-empty values seen for
\* the host, the first one seen first; country is the last non-empty value seen.
Collected(kept, seen) ==
  /\ Members(kept) = Members(seen)
  /\ NoRepeats(kept)
  /\ kept # <<>> => kept[1] = seen[1]

LastOf(seen) == IF seen = <<>> THEN "" ELSE seen[Len(seen)]

C12_TitlesCollectedCountryLast ==
  /\ AllRead =>
       \A i \in 1..Len(hostMap) :
         /\ Collected(hostMap[i].titles, TitlesSeen(hostMap[i].host))
         /\ Collected(hostMap[i].webservers, WebserversSeen(hostMap[i].host))
         /\ countryByHost[hostMap[i].host] = LastOf(CountriesSeen(hostMap[i].host))
  /\ \A k \in Returned : \A rec \in Records(k) :
       /\ Collected(rec.fingerprints.titles, TitlesSeen(rec.subdomain))
       /\ Collected(rec.fingerprints.webservers, WebserversSeen(rec.subdomain))
       /\ rec.fingerprints.country = LastOf(CountriesSeen(rec.subdomain))

\* A host for which two different titles and two different countries were
\* seen has been emitted.
C12_Witness ==
  \E k \in Returned : \E rec \in Records(k) :
    /\ Len(TitlesSeen(rec.subdomain)) = 2
    /\ TitlesSeen(rec.subdomain)[1] # TitlesSeen(rec.subdomain)[2]
    /\ Len(CountriesSeen(rec.subdomain)) = 2
    /\ CountriesSeen(rec.subdomain)[1] # CountriesSeen(rec.subdomain)[2]
    /\ Len(rec.fingerprints.titles) = 2

Rejected(payload) == payload.given /\ ~safeParse(payload)

Tools == {"subfinder", "amass", "httpx", "securitytrails"}

\* The inputs of the call with every rejected payload left out.
WithoutRejected ==
  [t \in Tools |-> IF Rejected(normInputs[t]) THEN Omitted ELSE normInputs[t]]

\* C13: a payload that fails its schema contributes nothing and raises no
\* error: the call returns (or throws) exactly what it does with that payload
\* left out, and the tool is not listed in the pipeline.
C13_RejectedPayloadIsOmitted ==
  /\ \A k \in 1..Len(normResults) : normResults[k] = normalizeRecon(WithoutRejected)
  /\ \A t \in Tools : Rejected(normInputs[t]) => t \notin Members(sourcesMeta)

\* A call that was handed a rejected subfinder payload holding a well-formed
\* entry, next to accepted payloads of other tools, has returned records.
C13_Witness ==
  /\ Rejected(normInputs.subfinder)
  /\ \E e \in Members(normInputs.subfinder.data) : e.typed
  /\ \E t \in Tools : Accepted(normInputs[t]) # {}
  /\ \E k \in Returned : normResults[k].records # <<>>

\* The host strings of the accepted payloads in reading order: subfinder,
\* amass, httpx, securitytrails, each payload front to back.
HostsRead ==
  LET data(t) == IF Rejected(normInputs[t]) THEN <<>> ELSE normInputs[t].data
  IN [i \in 1..Len(data("subfinder")) |-> data("subfinder")[i].host]
       \o [i \in 1..Len(data("amass")) |-> data("amass")[i].name]
       \o [i \in 1..Len(data("httpx")) |-> data("httpx")[i].host]
       \o [i \in 1..Len(data("securitytrails")) |-> data("securitytrails")[i].hostname]

\* A list with every repeat of an earlier member struck out.
RECURSIVE FirstEncounters(_, _)
FirstEncounters(array, seen) ==
  IF array = <<>> THEN <<>>
  ELSE IF Head(array) \in seen THEN FirstEncounters(Tail(array), seen)
       ELSE <<Head(array)>> \o FirstEncounters(Tail(array), seen \cup {Head(array)})

\* C14: every call emits exactly one record per distinct literal host string
\* of the accepted payloads, in the order the hosts are first encountered.
C14_OneRecordPerHostInOrder ==
  \A k \in 1..Len(normResults) :
    /\ ~normResults[k].threw
    /\ [i \in 1..Len(normResults[k].records) |-> normResults[k].records[i].subdomain]
         = FirstEncounters(HostsRead, {})

\* C15: calls of normalizeRecon on the same inputs return the same records
\* (timestamps are not modelled), and a call starts from empty locals whatever
\* the call before left behind.
C15_SameInputsSameRecords ==
  /\ \A j, k \in 1..Len(normResults) : normResults[j] = normResults[k]
  /\ normPc = "subfinder" => Locals = newLocals

\* Two calls on inputs with two accepted payloads have returned records.
C15_Witness ==
  /\ Len(normResults) >= 2
  /\ normResults[2].records # <<>>
  /\ Len(normResults[2].records[1].pipeline) >= 2

\* ================================================================ finding normalizer
\* vuln/parse.ts, the nuclei attack template of the attack driver (part_004) and
\* the CVE matcher (part_007).

\* Severity labels as a tool writes them; "" is a missing label.
SeverityLabels == {"", "critical", "HIGH", "Medium", "low", "INFO", "unknown", "moderate"}

\* String.prototype.toLowerCase on the labels above.
toLowerCase(s) ==
  CASE s = "HIGH" -> "high"
    [] s = "Medium" -> "medium"
    [] s = "INFO" -> "info"
    [] OTHER -> s

severityLevels == {"critical", "high", "medium", "low", "info"}

\* An optional number is <<>> when missing and <<n>> when given; CVSS scores
\* are counted in tenths, 98 for 9.8.
Scores == { <<>>, <<0>>, <<1>>, <<39>>, <<40>>, <<69>>, <<70>>, <<89>>, <<90>>, <<98>> }

CveIds == {"", "CVE-2024-0001", "CVE-2024-9999"}

normalizeSeverity(raw) ==
  LET normalized == toLowerCase(IF raw = "" THEN "medium" ELSE raw)
  IN IF normalized \in severityLevels THEN normalized ELSE "medium"

severityFromCvssStrict(score) ==
  IF score = <<>> THEN "medium"
  ELSE IF score[1] > 90 THEN "critical"
  ELSE IF score[1] > 70 THEN "high"
  ELSE IF score[1] > 40 THEN "medium"
  ELSE IF score[1] > 0 THEN "low"
  ELSE "info"

severityFromCvss(score) ==
  IF score = <<>> THEN "medium"
  ELSE IF score[1] >= 90 THEN "critical"
  ELSE IF score[1] >= 70 THEN "high"
  ELSE IF score[1] >= 40 THEN "medium"
  ELSE IF score[1] > 0 THEN "low"
  ELSE "info"

\* A CVE reference of a finding: cvss is <<>> or one record.
Cvss(baseScore, vector, version) ==
  [baseScore |-> baseScore, vector |-> vector, version |-> version]

\* The record both parsers build: { id } and, when the tool gave a numeric
\* score, cvss: { baseScore, version: "3.x" }.
cveRecord(id, score) ==
  [id |-> id, cvss |-> IF score = <<>> THEN <<>> ELSE << Cvss(score[1], "", "3.x") >>]

\* baseVulnerability: the fields of a finding that the parsers, mergeFindings
\* and the matcher read or write (description, evidence, category, status and
\* the stamps are carried along untouched).
baseVulnerability(params) ==
  [reconId |-> params.reconId, source |-> params.source, title |-> params.title,
   severity |-> params.severity, confidence |-> params.confidence, cves |-> params.cves]

parseNucleiResults(options) ==
  IF ~safeParse(options.raw) THEN <<>>
  ELSE [i \in 1..Len(options.raw.data) |->
          LET finding == options.raw.data[i]
          IN baseVulnerability(
               [reconId |-> options.reconId, source |-> "nuclei", title |-> finding.name,
                severity |-> normalizeSeverity(finding.severity),
                confidence |-> IF finding.cve # "" THEN "confirmed" ELSE "needs-review",
                cves |-> IF finding.cve # ""
                         THEN << cveRecord(finding.cve, finding.cvss) >> ELSE <<>>])]

\* vulners.forEach((entry) => ...) for one port.
nmapPort(reconId, port) ==
  [i \in 1..Len(port.vulners) |->
     LET entry == port.vulners[i]
     IN baseVulnerability(
          [reconId |-> reconId, source |-> "nmap",
           title |-> entry.id \o " on port " \o ToString(port.port),
           severity |-> severityFromCvss(entry.cvss), confidence |-> "suspected",
           cves |-> << cveRecord(entry.id, entry.cvss) >>])]

RECURSIVE flat(_)
flat(lists) == IF lists = <<>> THEN <<>> ELSE Head(lists) \o flat(Tail(lists))

parseNmapVulnerabilities(options) ==
  IF ~safeParse(options.raw) THEN <<>>
  ELSE flat([i \in 1..Len(options.raw.data) |->
               nmapPort(options.reconId, options.raw.data[i])])

\* The key mergeFindings builds: `${reconId}:${source}:${title}`.
findingKey(finding) == finding.reconId \o ":" \o finding.source \o ":" \o finding.title

RECURSIVE mergeFrom(_, _)
mergeFrom(findings, seen) ==
  IF findings = <<>> THEN <<>>
  ELSE IF findingKey(Head(findings)) \in seen THEN mergeFrom(Tail(findings), seen)
       ELSE <<Head(findings)>>
              \o mergeFrom(Tail(findings), seen \cup {findingKey(Head(findings))})

mergeFindings(lists) == mergeFrom(flat(lists), {})

\* ------------------------------------------------------------ nuclei attack template
\* performNucleiAttacks, stdout handler: the switch on the lower-cased label.
severityOf(result) ==
  LET label == toLowerCase(result.severity)
  IN IF label \in {"critical", "high", "medium", "low"} THEN label ELSE "info"

\* A missing cvss_score compares false with both thresholds.
confidenceOf(result) ==
  IF result.cvss_score # <<>> /\ result.cvss_score[1] >= 70 THEN "confirmed"
  ELSE "suspected"

performNucleiAttacks(results, reconId) ==
  [i \in 1..Len(results) |->
     [reconId |-> reconId, source |-> "nuclei-attack",
      title |-> orElse(results[i].name, "Nuclei Attack Template"),
      severity |-> severityOf(results[i]), confidence |-> confidenceOf(results[i])]]

\* ------------------------------------------------------------ CVE matcher
\* parseNvdFeed returns null for a feed its schema rejects.
Null == [isNull |-> TRUE, CVE_Items |-> <<>>]

NvdFeed(items) == [isNull |-> FALSE, CVE_Items |-> items]

\* One CVE_Items entry as cveItemSchema reads it: nodes is
\* configurations.nodes, each node the cpe_match list of
\* [vulnerable, cpe23Uri] entries (vulnerable is <<>> when unmarked).
CveItem(id, baseScore, vectorString, nodes) ==
  [id |-> id, baseScore |-> baseScore, vectorString |-> vectorString, nodes |-> nodes]

\* index.get(id): << >> when the index holds no entry of that id.
get(index, id) ==
  LET found == { i \in 1..Len(index) : index[i].id = id }
  IN IF found = {} THEN <<>> ELSE << index[CHOOSE i \in found : TRUE] >>

\* map.set(id, detail) of buildCveIndex: a later item of the same id replaces
\* the earlier one in place, a new id is added at the end.
indexSet(index, detail) ==
  LET found == { i \in 1..Len(index) : index[i].id = detail.id }
  IN IF found = {} THEN Append(index, detail)
     ELSE [index EXCEPT ![CHOOSE i \in found : TRUE] = detail]

\* Variant: every platform-match identifier is kept, vulnerable or not.
cpesUnfiltered(item) ==
  LET matches == flat(item.nodes)
  IN [i \in 1..Len(matches) |-> matches[i].cpe23Uri]

\* The cpes of one item: node by node, the cpe23Uri of every cpe_match entry
\* whose vulnerable flag is true.
cpes(item) ==
  LET RECURSIVE forEach(_, _)
      forEach(acc, rest) ==
        IF rest = <<>> THEN acc
        ELSE forEach(IF Head(rest).vulnerable = << TRUE >>
                     THEN Append(acc, Head(rest).cpe23Uri) ELSE acc,
                     Tail(rest))
  IN forEach(<<>>, flat(item.nodes))

buildCveIndex(feed) ==
  LET detail(item) == [id |-> item.id, baseScore |-> item.baseScore,
                       vector |-> item.vectorString, cpes |-> cpes(item)]
      RECURSIVE forEach(_, _)
      forEach(acc, array) ==
        IF array = <<>> THEN acc
        ELSE forEach(indexSet(acc, detail(Head(array))), Tail(array))
  IN IF feed.isNull THEN <<>> ELSE forEach(<<>>, feed.CVE_Items)

\* finding.cves.map((entry) => ...) of enrichVulnerabilitiesWithNvd.
enrichEntryOwnFirst(entry, index) ==
  IF get(index, entry.id) = <<>> THEN entry
  ELSE LET detail == get(index, entry.id)[1]
           baseScore == IF entry.cvss # <<>> THEN << entry.cvss[1].baseScore >>
                        ELSE detail.baseScore
       IN IF baseScore = <<>> THEN entry
          ELSE [id |-> entry.id,
                cvss |-> << Cvss(baseScore[1],
                                 orElse(detail.vector,
                                        IF entry.cvss = <<>> THEN "" ELSE entry.cvss[1].vector),
                                 IF entry.cvss = <<>> THEN "3.x"
                                 ELSE orElse(entry.cvss[1].version, "3.x")) >>]

enrichEntry(entry, index) ==
  IF get(index, entry.id) = <<>> THEN entry
  ELSE LET detail == get(index, entry.id)[1]
           baseScore == IF detail.baseScore # <<>> THEN detail.baseScore
                        ELSE IF entry.cvss = <<>> THEN <<>>
                             ELSE << entry.cvss[1].baseScore >>
       IN IF baseScore = <<>> THEN entry
          ELSE [id |-> entry.id,
                cvss |-> << Cvss(baseScore[1],
                                 orElse(detail.vector,
                                        IF entry.cvss = <<>> THEN "" ELSE entry.cvss[1].vector),
                                 IF entry.cvss = <<>> THEN "3.x"
                                 ELSE orElse(entry.cvss[1].version, "3.x")) >>]

enrichVulnerabilitiesWithNvd(vulns, index) ==
  [i \in 1..Len(vulns) |->
     IF vulns[i].cves = <<>> THEN vulns[i]
     ELSE [vulns[i] EXCEPT !.cves = [j \in 1..Len(@) |-> enrichEntry(@[j], index)]]]

\* ------------------------------------------------------------ inputs of the finding path
\* One finding of the nuclei JSON as nucleiSchema reads it.
NucleiFinding(typed, name, severity, cve, cvss) ==
  [typed |-> typed, name |-> name, severity |-> severity, cve |-> cve, cvss |-> cvss]

\* The nuclei output: the finding under test alone, followed by a finding
\* without label and a second finding of the same title, or followed by an
\* entry nucleiSchema rejects.
Shapes == {"one", "three", "rejected"}

NucleiRaw(shape, label, cve, score) ==
  LET probe == NucleiFinding(TRUE, "Example RCE", label, cve, score)
      panel == NucleiFinding(TRUE, "Exposed panel", "", "", <<>>)
      again == NucleiFinding(TRUE, "Example RCE", "low", "", <<>>)
      bad == NucleiFinding(FALSE, "Broken", "high", "CVE-2024-0001", <<>>)
  IN CASE shape = "one" -> Given(<<probe>>)
       [] shape = "three" -> Given(<<probe, panel, again>>)
       [] OTHER -> Given(<<probe, bad>>)

\* The nmap output: one port whose vulners script lists two ids.
NmapRaw(shape, score) ==
  Given(<< [typed |-> shape # "rejected", port |-> 22,
            vulners |-> << [id |-> "CVE-2024-0001", cvss |-> score],
                           [id |-> "CVE-2023-1111", cvss |-> <<>>] >>] >>)

\* One JSON line of the nuclei attack run.
AttackRaw(label, cve, score) ==
  << [name |-> "Example RCE", severity |-> label, cve |-> cve, cvss_score |-> score] >>

\* Findings of other origin handed to mergeFindings as a further list.
OtherFindings ==
  LET finding(source, title, cves) ==
        [reconId |-> "recon-1", source |-> source, title |-> title, severity |-> "low",
         confidence |-> "needs-review", cves |-> cves]
  IN { <<>>,
       << finding("nmap", "CVE-2024-0001 on port 22", <<>>) >>,
       << finding("scan:nuclei", "x", << cveRecord("CVE-2024-9999", <<50>>) >>),
          finding("scan", "nuclei:x", <<>>) >> }

NvdFeeds ==
  { Null,
    NvdFeed(<< CveItem("CVE-2024-0001", <<98>>, "AV:N", <<>>) >>),
    NvdFeed(<< CveItem("CVE-2024-0001", <<>>, "", <<>>) >>),
    NvdFeed(<< CveItem("CVE-2024-0001", <<>>, "AV:L", <<>>) >>),
    NvdFeed(<< CveItem("CVE-2024-0001", <<50>>, "", <<>>),
               CveItem("CVE-2024-0001", <<98>>, "AV:N", <<>>) >>) }

VulnInit ==
  /\ StageIdle
  /\ ScopeIdle
  /\ NormIdle
  /\ MatchIdle
  /\ AdapterIdle
  /\ HostIdle
  /\ \E shape \in Shapes, label \in SeverityLabels, cve \in CveIds, score \in Scores :
       \E other \in OtherFindings, feed \in NvdFeeds :
         vulnInputs = [nuclei |-> NucleiRaw(shape, label, cve, score),
                       nmap |-> NmapRaw(shape, score),
                       attack |-> AttackRaw(label, cve, score),
                       other |-> other, feed |-> feed]
  /\ vulnDone = {}
  /\ nucleiFindings = <<>>
  /\ nmapFindings = <<>>
  /\ attacks = <<>>
  /\ combined = <<>>
  /\ enriched = <<>>

vulnFrame == << stageVars, scopeVars, normVars, matchVars, adapterVars, hostVars, vulnInputs >>

ParseNuclei ==
  /\ "nuclei" \notin vulnDone
  /\ nucleiFindings' = parseNucleiResults([reconId |-> "recon-1", raw |-> vulnInputs.nuclei])
  /\ vulnDone' = vulnDone \cup {"nuclei"}
  /\ UNCHANGED << vulnFrame, nmapFindings, attacks, combined, enriched >>

ParseNmap ==
  /\ "nmap" \notin vulnDone
  /\ nmapFindings' = parseNmapVulnerabilities([reconId |-> "recon-1", raw |-> vulnInputs.nmap])
  /\ vulnDone' = vulnDone \cup {"nmap"}
  /\ UNCHANGED << vulnFrame, nucleiFindings, attacks, combined, enriched >>

NucleiAttack ==
  /\ "attack" \notin vulnDone
  /\ attacks' = performNucleiAttacks(vulnInputs.attack, "recon-1")
  /\ vulnDone' = vulnDone \cup {"attack"}
  /\ UNCHANGED << vulnFrame, nucleiFindings, nmapFindings, combined, enriched >>

\* const combined = mergeFindings(nucleiFindings, nmapFindings, ...)
MergeFindings ==
  /\ {"nuclei", "nmap"} \subseteq vulnDone
  /\ "merge" \notin vulnDone
  /\ combined' = mergeFindings(<< nucleiFindings, nmapFindings, vulnInputs.other >>)
  /\ vulnDone' = vulnDone \cup {"merge"}
  /\ UNCHANGED << vulnFrame, nucleiFindings, nmapFindings, attacks, enriched >>

\* const enriched = enrichVulnerabilitiesWithNvd(combined, buildCveIndex(feed))
Enrich ==
  /\ "merge" \in vulnDone
  /\ "enrich" \notin vulnDone
  /\ enriched' = enrichVulnerabilitiesWithNvd(combined, buildCveIndex(vulnInputs.feed))
  /\ vulnDone' = vulnDone \cup {"enrich"}
  /\ UNCHANGED << vulnFrame, nucleiFindings, nmapFindings, attacks, combined >>

VulnNext ==
  \/ ParseNuclei
  \/ ParseNmap
  \/ NucleiAttack
  \/ MergeFindings
  \/ Enrich

SpecVuln == VulnInit /\ [][VulnNext]_vars

\* ------------------------------------------------------------ finding properties
\* The canonical level of the same name as a label, medium when there is none.
CanonicalLevel(label) ==
  CASE label \in {"critical"} -> "critical"
    [] label \in {"HIGH"} -> "high"
    [] label \in {"Medium"} -> "medium"
    [] label \in {"low"} -> "low"
    [] label \in {"INFO"} -> "info"
    [] OTHER -> "medium"

Parsed(tool) == tool \in vulnDone

\* C16: the severity of a finding is the canonical level named by the tool's
\* label, lower-cased, and medium for a label that is missing or names no
\* level, in parseNucleiResults and in the nuclei attack template alike.
C16_LabelMapsToLevelElseMedium ==
  /\ \A i \in 1..Len(nucleiFindings) :
       /\ nucleiFindings[i].severity = CanonicalLevel(vulnInputs.nuclei.data[i].severity)
       /\ nucleiFindings[i].severity \in severityLevels
  /\ \A i \in 1..Len(attacks) :
       /\ attacks[i].severity = CanonicalLevel(vulnInputs.attack[i].severity)
       /\ attacks[i].severity \in severityLevels

\* The vulners entries of the nmap output that parseNmapVulnerabilities reads,
\* port by port.
NmapEntries ==
  IF safeParse(vulnInputs.nmap)
  THEN flat([i \in 1..Len(vulnInputs.nmap.data) |-> vulnInputs.nmap.data[i].vulners])
  ELSE <<>>

\* The severity band of a numeric score, in tenths.
Band(s) ==
  CASE s >= 90 -> "critical"
    [] s >= 70 /\ s < 90 -> "high"
    [] s >= 40 /\ s < 70 -> "medium"
    [] s > 0 /\ s < 40 -> "low"
    [] OTHER -> "info"

\* C17 as stated: the severity of an nmap finding is the band of its score,
\* and info when the score is 0 or absent.
C17_AbsentScoreIsInfo ==
  Parsed("nmap") =>
    /\ Len(nmapFindings) = Len(NmapEntries)
    /\ \A i \in 1..Len(nmapFindings) :
         nmapFindings[i].severity =
           (IF NmapEntries[i].cvss = <<>> THEN "info" ELSE Band(NmapEntries[i].cvss[1]))

\* C17 (amended): the severity of an nmap finding is the band of its score,
\* info for a score of 0, and medium when the score is absent.
C17_AbsentScoreIsMedium ==
  Parsed("nmap") =>
    /\ Len(nmapFindings) = Len(NmapEntries)
    /\ \A i \in 1..Len(nmapFindings) :
         nmapFindings[i].severity =
           (IF NmapEntries[i].cvss = <<>> THEN "medium" ELSE Band(NmapEntries[i].cvss[1]))

\* An nmap output with a score on a threshold and an entry without score has
\* been parsed.
C17_Witness ==
  /\ Parsed("nmap")
  /\ Len(nmapFindings) = 2
  /\ NmapEntries[1].cvss = <<90>>
  /\ nmapFindings[1].severity = "critical"
  /\ NmapEntries[2].cvss = <<>>
  /\ nmapFindings[2].severity = "medium"

\* An explicit CVE identifier.
IsCveId(id) == id \in {"CVE-2024-0001", "CVE-2024-9999", "CVE-2023-1111"}

\* C18: a finding is confirmed exactly when the tool reported an explicit CVE
\* identifier with it, in parseNucleiResults, in parseNmapVulnerabilities and
\* in the nuclei attack template.
C18_ConfirmedIffCveId ==
  /\ \A i \in 1..Len(nucleiFindings) :
       (nucleiFindings[i].confidence = "confirmed") <=> IsCveId(vulnInputs.nuclei.data[i].cve)
  /\ \A i \in 1..Len(nmapFindings) :
       (nmapFindings[i].confidence = "confirmed") <=> IsCveId(NmapEntries[i].id)
  /\ \A i \in 1..Len(attacks) :
       (attacks[i].confidence = "confirmed") <=> IsCveId(vulnInputs.attack[i].cve)

Triple(finding) == << finding.reconId, finding.source, finding.title >>

\* A list of findings with every finding struck out whose triple an earlier
\* finding of the list has.
RECURSIVE FirstOfTriple(_, _)
FirstOfTriple(findings, seen) ==
  IF findings = <<>> THEN <<>>
  ELSE IF Triple(Head(findings)) \in seen THEN FirstOfTriple(Tail(findings), seen)
       ELSE <<Head(findings)>>
              \o FirstOfTriple(Tail(findings), seen \cup {Triple(Head(findings))})

MergeInput == flat(<< nucleiFindings, nmapFindings, vulnInputs.other >>)

\* C19: mergeFindings returns exactly one finding per distinct
\* (reconId, source, title) of its input lists, the first one in concatenation
\* order, the kept findings in their input order.
C19_OneFindingPerTriple ==
  Parsed("merge") => combined = FirstOfTriple(MergeInput, {})

\* The entries of the matcher's index, read off the feed: the last item of an
\* id counts.
IndexedScore(id) ==
  LET items == vulnInputs.feed.CVE_Items
      hits == { i \in 1..Len(items) : items[i].id = id }
  IN IF vulnInputs.feed.isNull \/ hits = {} THEN <<>>
     ELSE items[CHOOSE i \in hits : \A j \in hits : j <= i].baseScore

Indexed(id) ==
  ~vulnInputs.feed.isNull
    /\ \E i \in 1..Len(vulnInputs.feed.CVE_Items) : vulnInputs.feed.CVE_Items[i].id = id

\* C20: after enrichment every CVE reference whose id the index holds with a
\* numeric base score carries that score; a finding without CVE references,
\* and a reference whose id the index does not hold, come out as they went in.
C20_IndexedScoreWins ==
  Parsed("enrich") =>
    /\ Len(enriched) = Len(combined)
    /\ \A i \in 1..Len(combined) :
         /\ combined[i].cves = <<>> => enriched[i] = combined[i]
         /\ Len(enriched[i].cves) = Len(combined[i].cves)
         /\ \A j \in 1..Len(combined[i].cves) :
              LET before == combined[i].cves[j]
                  after == enriched[i].cves[j]
              IN /\ after.id = before.id
                 /\ IndexedScore(before.id) # <<>> =>
                      /\ after.cvss # <<>>
                      /\ after.cvss[1].baseScore = IndexedScore(before.id)[1]
                 /\ ~Indexed(before.id) => after = before

\* Enrichment has replaced the score a finding came with by the index's
\* score, and has left a finding without references and a reference to an
\* unindexed id as they were.
C20_Witness ==
  /\ Parsed("enrich")
  /\ \E i \in 1..Len(combined) :
       /\ combined[i].cves # <<>>
       /\ combined[i].cves[1].cvss # <<>>
       /\ IndexedScore(combined[i].cves[1].id) # <<>>
       /\ combined[i].cves[1].cvss[1].baseScore # IndexedScore(combined[i].cves[1].id)[1]
       /\ enriched[i].cves[1].cvss[1].baseScore = IndexedScore(combined[i].cves[1].id)[1]
  /\ \E i \in 1..Len(combined) : combined[i].cves = <<>>
  /\ \E i \in 1..Len(combined) :
       combined[i].cves # <<>> /\ ~Indexed(combined[i].cves[1].id)

\* C30: no call of normalizeRecon raises, and every port of every emitted
\* record has a number in 1..65535 and protocol tcp or udp.
C30_NeverRaisesPortsValid ==
  \A k \in 1..Len(normResults) :
    /\ ~normResults[k].threw
    /\ \A rec \in Records(k) : \A p \in Members(rec.ports) : portSchema(p)

\* C21: a CVE reference whose index entry supplies no numeric base score
\* comes out of enrichment as it went in, and whatever field of a reference
\* was populated before enrichment is populated after it.
C21_OnlyNumericIndexBackfills ==
  "enrich" \in vulnDone =>
    \A i \in 1..Len(combined) : \A j \in 1..Len(combined[i].cves) :
      LET before == combined[i].cves[j]
          after == enriched[i].cves[j]
      IN /\ IndexedScore(before.id) = <<>> => after = before
         /\ after.id = before.id
         /\ before.cvss # <<>> =>
              /\ after.cvss # <<>>
              /\ before.cvss[1].vector # "" => after.cvss[1].vector # ""
              /\ before.cvss[1].version # "" => after.cvss[1].version # ""

\* ============================================================ CVE matcher on technology fingerprints
\* buildCveIndex and suggestCvesFromTech of the CVE matcher, as the fixture
\* check calls them.  A string the matcher takes apart (a cpe23Uri, a
\* fingerprint name) is the sequence of its characters.

MaxFeedItems == 2

\* The platform identifiers of the feeds:
\*   cpe:2.3:a:openbsd:openssh:8.4   cpe:2.3:a:openbsd:SSH   cpe:2.3:a:openbsd:
\*   cpe:2.3:a:nginx                 cpe:2.3:a:f5:nginx:1.0
Cpe23Uris ==
  LET a == << "c", "p", "e", ":", "2", ".", "3", ":", "a", ":" >>
      openbsd == << "o", "p", "e", "n", "b", "s", "d", ":" >>
      nginx == << "n", "g", "i", "n", "x" >>
  IN [openssh |-> a \o openbsd \o << "o", "p", "e", "n", "s", "s", "h", ":", "8", ".", "4" >>,
      SSH |-> a \o openbsd \o << "S", "S", "H" >>,
      noProduct |-> a \o openbsd,
      short |-> a \o nginx,
      nginx |-> a \o << "f", "5", ":" >> \o nginx \o << ":", "1", ".", "0" >>]

CpeMatch(vulnerable, cpe23Uri) == [vulnerable |-> vulnerable, cpe23Uri |-> cpe23Uri]

MatcherItems ==
  { CveItem("CVE-2024-0001", <<98>>, "AV:N",
            << << CpeMatch(<< TRUE >>, Cpe23Uris.openssh), CpeMatch(<< FALSE >>, Cpe23Uris.nginx),
                  CpeMatch(<<>>, Cpe23Uris.SSH), CpeMatch(<< TRUE >>, Cpe23Uris.noProduct) >> >>),
    CveItem("CVE-2024-0001", <<>>, "",
            << << CpeMatch(<< TRUE >>, Cpe23Uris.SSH) >>,
               << CpeMatch(<< TRUE >>, Cpe23Uris.noProduct), CpeMatch(<< TRUE >>, Cpe23Uris.short) >> >>),
    CveItem("CVE-2024-9999", <<50>>, "",
            << << CpeMatch(<< TRUE >>, Cpe23Uris.nginx), CpeMatch(<< TRUE >>, Cpe23Uris.nginx) >> >>),
    CveItem("CVE-2024-9999", <<>>, "", <<>>) }

MatcherFeeds ==
  {Null} \cup { NvdFeed(items) : items \in UNION { [1..n -> MatcherItems] : n \in 0..MaxFeedItems } }

TechFingerprint(name, version) == [name |-> name, version |-> version]

\* OpenSSH 8.4, OpenSSH 9.0, nginx, Portal.
TechLists ==
  LET OpenSSH == << "O", "p", "e", "n", "S", "S", "H" >>
      nginx == << "n", "g", "i", "n", "x" >>
      Portal == << "P", "o", "r", "t", "a", "l" >>
  IN { <<>>,
       << TechFingerprint(OpenSSH, "8.4") >>,
       << TechFingerprint(nginx, ""), TechFingerprint(OpenSSH, "8.4") >>,
       << TechFingerprint(OpenSSH, "8.4"), TechFingerprint(OpenSSH, "9.0") >>,
       << TechFingerprint(Portal, "2.3") >> }

\* String.prototype.toLowerCase, character by character.
toLowerCaseChars(s) ==
  LET lower(c) == CASE c = "O" -> "o" [] c = "S" -> "s" [] c = "H" -> "h" [] c = "P" -> "p"
                    [] OTHER -> c
  IN [i \in 1..Len(s) |-> lower(s[i])]

\* String.prototype.includes.
includes(s, searchString) ==
  \E start \in 0..(Len(s) - Len(searchString)) :
    SubSeq(s, start + 1, start + Len(searchString)) = searchString

\* Variant: the vendor field is taken for the product.
parseCpeVendor(cpe) ==
  LET RECURSIVE split(_, _)
      split(rest, part) ==
        IF rest = <<>> THEN << part >>
        ELSE IF Head(rest) = ":" THEN << part >> \o split(Tail(rest), <<>>)
        ELSE split(Tail(rest), Append(part, Head(rest)))
      parts == split(cpe, <<>>)
  IN IF Len(parts) < 5 THEN [isNull |-> TRUE, vendor |-> <<>>, product |-> <<>>]
     ELSE [isNull |-> FALSE, vendor |-> parts[4], product |-> parts[4]]

\* parseCpe: cpe.split(":"), null under five parts, else parts[3] and
\* parts[4] as vendor and product (an empty part is a missing field).
parseCpe(cpe) ==
  LET RECURSIVE split(_, _)
      split(rest, part) ==
        IF rest = <<>> THEN << part >>
        ELSE IF Head(rest) = ":" THEN << part >> \o split(Tail(rest), <<>>)
        ELSE split(Tail(rest), Append(part, Head(rest)))
      parts == split(cpe, <<>>)
  IN IF Len(parts) < 5 THEN [isNull |-> TRUE, vendor |-> <<>>, product |-> <<>>]
     ELSE [isNull |-> FALSE, vendor |-> parts[4], product |-> parts[5]]

suggestCvesFromTech(tech, index) ==
  LET RECURSIVE eachCpe(_, _, _, _)
      eachCpe(acc, fingerprint, detail, rest) ==
        IF rest = <<>> THEN acc
        ELSE LET parsed == parseCpe(Head(rest))
                 hit == /\ ~parsed.isNull
                        /\ parsed.product # <<>>
                        /\ includes(toLowerCaseChars(fingerprint.name),
                                    toLowerCaseChars(parsed.product))
             IN eachCpe(IF hit THEN Append(acc, [tech |-> fingerprint, cve |-> detail]) ELSE acc,
                        fingerprint, detail, Tail(rest))
      RECURSIVE eachDetail(_, _, _)
      eachDetail(acc, fingerprint, rest) ==
        IF rest = <<>> THEN acc
        ELSE eachDetail(eachCpe(acc, fingerprint, Head(rest), Head(rest).cpes),
                        fingerprint, Tail(rest))
      RECURSIVE eachFingerprint(_, _)
      eachFingerprint(acc, rest) ==
        IF rest = <<>> THEN acc
        ELSE eachFingerprint(eachDetail(acc, Head(rest), index), Tail(rest))
  IN eachFingerprint(<<>>, tech)

MatchInit ==
  /\ StageIdle
  /\ ScopeIdle
  /\ NormIdle
  /\ VulnIdle
  /\ AdapterIdle
  /\ HostIdle
  /\ \E feed \in MatcherFeeds, tech \in TechLists : matchInputs = [feed |-> feed, tech |-> tech]
  /\ matchPc = "start"
  /\ cveIndex = <<>>
  /\ suggestions = <<>>

\* const index = CveMatcher.buildCveIndex(parsedFeed)
BuildCveIndex ==
  /\ matchPc = "start"
  /\ cveIndex' = buildCveIndex(matchInputs.feed)
  /\ matchPc' = "indexed"
  /\ UNCHANGED << stageVars, scopeVars, normVars, vulnVars, adapterVars, hostVars, matchInputs,
                  suggestions >>

\* const suggestions = CveMatcher.suggestCvesFromTech([...], index)
SuggestCvesFromTech ==
  /\ matchPc = "indexed"
  /\ suggestions' = suggestCvesFromTech(matchInputs.tech, cveIndex)
  /\ matchPc' = "suggested"
  /\ UNCHANGED << stageVars, scopeVars, normVars, vulnVars, adapterVars, hostVars, matchInputs,
                  cveIndex >>

MatchNext ==
  \/ BuildCveIndex
  \/ SuggestCvesFromTech

SpecMatcher == MatchInit /\ [][MatchNext]_vars

\* ------------------------------------------------------------ properties of the CVE matcher
\* The feed item the index entry of an id is built from: the last one of that id.
LastItemOf(id) ==
  LET items == matchInputs.feed.CVE_Items
      hits == { i \in 1..Len(items) : items[i].id = id }
  IN items[CHOOSE i \in hits : \A j \in hits : j <= i]

\* The identifiers of an item's platform matches that are marked vulnerable.
VulnerableUris(item) ==
  LET matches == flat(item.nodes)
      marked == SelectSeq(matches, LAMBDA m : m.vulnerable = << TRUE >>)
  IN [i \in 1..Len(marked) |-> marked[i].cpe23Uri]

ProductToken(cpe) ==
  LET colons == { i \in 1..Len(cpe) : cpe[i] = ":" }
      nth(k) == CHOOSE i \in colons : Cardinality({ j \in colons : j < i }) = k - 1
  IN IF Cardinality(colons) < 4 THEN <<>>
     ELSE SubSeq(cpe, nth(4) + 1, IF Cardinality(colons) >= 5 THEN nth(5) - 1 ELSE Len(cpe))

\* The lower-cased name holds the lower-cased token as a substring.
NameHoldsToken(name, token) ==
  \E start \in 0..(Len(name) - Len(token)) :
    \A k \in 1..Len(token) :
      toLowerCaseChars(<< name[start + k] >>) = toLowerCaseChars(<< token[k] >>)

\* The combinations of a fingerprint, an index entry and one of the entry's
\* identifiers (by position) that call for a pair.
Combinations ==
  UNION { { << t, d, k >> :
              k \in { n \in 1..Len(cveIndex[d].cpes) :
                        /\ ProductToken(cveIndex[d].cpes[n]) # <<>>
                        /\ NameHoldsToken(matchInputs.tech[t].name,
                                          ProductToken(cveIndex[d].cpes[n])) } } :
            t \in 1..Len(matchInputs.tech), d \in 1..Len(cveIndex) }

AdapterTools == {"subfinder", "httpx", "nuclei"}

\* What a tool process writes to stdout before it ends:
\*   [1]\n[2]\n    x\n[1]\n    [1]    12\n    (nothing)    \n[2]\n\nx
Streams ==
  { << "[", "1", "]", "\n", "[", "2", "]", "\n" >>,
    << "x", "\n", "[", "1", "]", "\n" >>,
    << "[", "1", "]" >>,
    << "1", "2", "\n" >>,
    << >>,
    << "\n", "[", "2", "]", "\n", "\n", "x" >> }

\* JSON.parse on a line over the characters of Streams succeeds exactly on a
\* number (a run of digits) and on an array holding nothing or one number.
JSONparse(line) ==
  LET isNumber(s) == s # <<>> /\ \A i \in 1..Len(s) : s[i] \in {"1", "2"}
      ok == \/ isNumber(line)
            \/ /\ Len(line) >= 2
               /\ line[1] = "["
               /\ line[Len(line)] = "]"
               /\ (Len(line) = 2 \/ isNumber(SubSeq(line, 2, Len(line) - 1)))
  IN [threw |-> ~ok, value |-> line]

\* The stdout 'data' handler: data.toString().split('\n'), blank lines
\* filtered out, then every line pushed as it is (subfinder, amass) or pushed
\* when JSON.parse takes it (httpx, nuclei).
onData(tool, array, data) ==
  LET RECURSIVE split(_, _)
      split(rest, part) ==
        IF rest = <<>> THEN << part >>
        ELSE IF Head(rest) = "\n" THEN << part >> \o split(Tail(rest), <<>>)
        ELSE split(Tail(rest), Append(part, Head(rest)))
      lines == SelectSeq(split(data, <<>>), LAMBDA line : line # <<>>)
      RECURSIVE forEach(_, _)
      forEach(acc, rest) ==
        IF rest = <<>> THEN acc
        ELSE forEach(IF tool = "subfinder" \/ ~JSONparse(Head(rest)).threw
                     THEN Append(acc, Head(rest)) ELSE acc,
                     Tail(rest))
  IN forEach(array, lines)

AdapterInit ==
  /\ StageIdle
  /\ ScopeIdle
  /\ NormIdle
  /\ VulnIdle
  /\ MatchIdle
  /\ HostIdle
  /\ \E tool \in AdapterTools, stdout \in Streams, spawnFails \in BOOLEAN, code \in {0, 1} :
       adapterInputs = [tool |-> tool, stdout |-> IF spawnFails THEN <<>> ELSE stdout,
                        spawnFails |-> spawnFails, code |-> code]
  /\ adapterPc = "spawned"
  /\ delivered = 0
  /\ collected = <<>>
  /\ adapterPromise = <<>>

adapterFrame == << stageVars, scopeVars, normVars, vulnVars, matchVars, hostVars, adapterInputs >>

\* stdout.on('data', ...): the next characters of stdout arrive, cut wherever
\* the pipe cuts them.
AdapterData ==
  /\ adapterPc = "spawned"
  /\ ~adapterInputs.spawnFails
  /\ \E n \in 1..(Len(adapterInputs.stdout) - delivered) :
       /\ collected' = onData(adapterInputs.tool, collected,
                              SubSeq(adapterInputs.stdout, delivered + 1, delivered + n))
       /\ delivered' = delivered + n
  /\ UNCHANGED << adapterFrame, adapterPc, adapterPromise >>

\* on('error', ...): the process could not be spawned; resolve([]).
AdapterError ==
  /\ adapterPc = "spawned"
  /\ adapterInputs.spawnFails
  /\ adapterPc' = "error"
  /\ adapterPromise' = << <<>> >>
  /\ UNCHANGED << adapterFrame, delivered, collected >>

\* on('close', (code) => ...): stdout has ended and the process is gone,
\* whatever its exit code; resolve(collected).  A promise 'error' has
\* resolved stays as it is.
AdapterClose ==
  /\ \/ adapterPc = "error"
     \/ /\ adapterPc = "spawned"
        /\ ~adapterInputs.spawnFails
        /\ delivered = Len(adapterInputs.stdout)
  /\ adapterPc' = "closed"
  /\ adapterPromise' = IF adapterPromise = <<>> THEN << collected >> ELSE adapterPromise
  /\ UNCHANGED << adapterFrame, delivered, collected >>

AdapterNext ==
  \/ AdapterData
  \/ AdapterError
  \/ AdapterClose

SpecAdapter == AdapterInit /\ [][AdapterNext]_vars

\* ------------------------------------------------------------ properties of the tool adapters
\* The lines of the whole of stdout: the runs of characters between its line
\* ends, the blank ones left out, in order.
LinesOf(stdout) ==
  LET ends == { i \in 1..Len(stdout) : stdout[i] = "\n" } \cup {Len(stdout) + 1}
      starts == { 1 } \cup { i + 1 : i \in { e \in ends : e <= Len(stdout) } }
      lineAt(s) == SubSeq(stdout, s, (CHOOSE e \in ends : e >= s /\ \A f \in ends : f >= s => e <= f) - 1)
      RECURSIVE from(_)
      from(s) == IF s > Len(stdout) THEN <<>>
                 ELSE (IF s \in starts /\ lineAt(s) # <<>> THEN << lineAt(s) >> ELSE <<>>)
                        \o from(s + 1)
  IN from(1)

\* The records the whole of stdout holds for the tool.
RecordsOf(tool, stdout) ==
  SelectSeq(LinesOf(stdout), LAMBDA line : tool = "subfinder" \/ ~JSONparse(line).threw)

\* C28: whatever the cut of stdout into data events, the adapter resolves
\* with one record per structured line of the whole stream, in stream order,
\* and skips exactly the lines that are not structured.
C28_RecordsIndependentOfChunking ==
  (adapterPc = "closed" /\ ~adapterInputs.spawnFails) =>
    adapterPromise = << RecordsOf(adapterInputs.tool, adapterInputs.stdout) >>

\* C24: the adapter's promise is settled once the process is gone, and with
\* the empty result set when the process failed to spawn or exited with a
\* code other than 0.
C24_FailedToolYieldsEmpty ==
  adapterPc = "closed" =>
    /\ adapterPromise # <<>>
    /\ (adapterInputs.spawnFails \/ adapterInputs.code # 0) => adapterPromise = << <<>> >>

\* The stage operation of item i has started (its worker is past the timer).
Started(i) == itemPc[i] \notin {"pending", "delayed"}

\* C27: stage operations start in input order: the operation on a later item
\* has not started while the operation on an earlier item has not.
C27_StartsInInputOrder ==
  \A i, j \in 1..targets : (i < j /\ Started(j)) => Started(i)

\* ============================================================ attack fan-out and a hung operation
\* The attack driver with the closing of single template processes made
\* visible: Spec takes the closing of a host's processes and the resolution
\* of its Promise.all as one step.
FanInit == Init /\ stage = "attack"

FanNext ==
  \/ StartJob
  \/ FindItems
  \/ FindItemsFails
  \/ FinishSuccess
  \/ FinishFailed
  \/ RaceResumes
  \/ PoolReturns
  \/ \E i \in Items : TimerFires(i)
  \/ \E i \in Items : EnsureDirFails(i)
  \/ \E i \in Items : AttackLookupFails(i)
  \/ \E i \in Items : AttackLookup(i)
  \/ \E i \in Items : ProcessCloses(i)
  \/ \E i \in Items : AttackTemplates(i)
  \/ \E i \in Items : AttackPersist(i)

SpecFanOut == FanInit /\ [][FanNext]_vars

\* A stage run with a limit of at least 2 in which the operation of one item
\* (when there is any item) never settles, while the event loop keeps running
\* whatever else is enabled: timers fire, the operations of the other items
\* go on and settle, the pool resumes.
HungInit ==
  \E item \in 0..MaxTargets :
    /\ Begin(item)
    /\ maxConcurrent >= 2
    /\ IF targets = 0 THEN item = 0 ELSE item \in 1..targets

SpecHung == HungInit /\ [][Next]_vars /\ WF_vars(Next)

RECURSIVE SumProcs(_)
SumProcs(n) == IF n = 0 THEN 0 ELSE procs[n] + SumProcs(n - 1)

\* C26: a host that enters the attack phase has its six template processes
\* running at once, and the external attack processes of the whole pool never
\* number more than 6 x maxConcurrent.
C26_ProcessesAtMostSixTimesLimit ==
  /\ SumProcs(MaxTargets) <= Templates * maxConcurrent
  /\ \A i \in Items : procs[i] <= Templates
  /\ \A i \in Items : procs[i] > 0 => itemPc[i] = "attacking"

\* With at least as many hosts as slots (and more than one slot), exactly
\* 6 x maxConcurrent processes run, one of the hosts being a replacement.
C26_Witness ==
  /\ maxConcurrent >= 2
  /\ targets >= maxConcurrent
  /\ SumProcs(MaxTargets) = Templates * maxConcurrent
  /\ currentIndex > Len(workers)

\* C25: with a limit of at least 2, a hung operation holds only its own slot:
\* every other item is dispatched and completes, so the progress counter
\* reaches targets - 1; the hung item is never settled by the pool, and the
\* pool never returns.
C25_HungItemHoldsOneSlot ==
  /\ [](hung # 0 => (itemPc[hung] # "settled" /\ pc # "returned" /\ completed < targets))
  /\ (hung # 0 /\ maxConcurrent >= 2 /\ mainPc = "pool")
       ~> (/\ completed = targets - 1
           /\ \A i \in 1..targets : i # hung => itemPc[i] = "settled")

\* The hung item sits in its slot of a pool of two while both other items,
\* one of them a replacement, have completed.
C25_Witness ==
  /\ hung # 0
  /\ maxConcurrent = 2
  /\ targets = 3
  /\ completed = 2
  /\ itemPc[hung] \in {"running", "attacking", "persist"}
  /\ pc = "final"

\* ============================================================ one stage operation on one host
\* runAttackJob (attack driver) and runVulnJob (vuln.ts) followed on a single
\* recon host: ensureDir, the two reads, the scope guard, the external
\* processes, insertMany, return.  A program id is the sequence of its
\* characters.

\* bugcrowd:t  hackerone:t  intigriti:t  manual:t  bugcrowd  xbugcrowd:t  and
\* the missing program.
Programs ==
  LET bugcrowd == << "b", "u", "g", "c", "r", "o", "w", "d" >>
      t == << ":", "t" >>
  IN { bugcrowd \o t,
       << "h", "a", "c", "k", "e", "r", "o", "n", "e" >> \o t,
       << "i", "n", "t", "i", "g", "r", "i", "t", "i" >> \o t,
       << "m", "a", "n", "u", "a", "l" >> \o t,
       bugcrowd,
       << "x" >> \o bugcrowd \o t,
       << >> }

\* What the two findOne calls give: no recon document, no target document, or
\* a target with its program.
Lookups ==
  { [recon |-> FALSE, target |-> <<>>], [recon |-> TRUE, target |-> <<>>] }
    \cup { [recon |-> TRUE, target |-> << [program |-> p] >>] : p \in Programs }

\* String.prototype.startsWith.
startsWith(s, searchString) ==
  Len(s) >= Len(searchString) /\ SubSeq(s, 1, Len(searchString)) = searchString

\* Variant: only a missing target is skipped.
skipsMissingOnly(target) == target = <<>>

\* The guard of both drivers: !target || !target.program || none of the three
\* platform prefixes starts the program.
skips(target) ==
  \/ target = <<>>
  \/ target[1].program = <<>>
  \/ /\ ~startsWith(target[1].program, << "b", "u", "g", "c", "r", "o", "w", "d", ":" >>)
     /\ ~startsWith(target[1].program, << "h", "a", "c", "k", "e", "r", "o", "n", "e", ":" >>)
     /\ ~startsWith(target[1].program, << "i", "n", "t", "i", "g", "r", "i", "t", "i", ":" >>)

HostInit ==
  /\ StageIdle
  /\ ScopeIdle
  /\ NormIdle
  /\ VulnIdle
  /\ MatchIdle
  /\ AdapterIdle
  /\ \E driver \in {"attack", "vuln"}, lookup \in Lookups, found \in 0..MaxAttacks :
       hostInputs = [driver |-> driver, lookup |-> lookup, found |-> found]
  /\ hostPc = "start"
  /\ hostProcs = 0
  /\ hostInserted = 0
  /\ hostOutcome = <<>>

hostFrame == << stageVars, scopeVars, normVars, vulnVars, matchVars, adapterVars, hostInputs >>

\* await ensureDir(rawDir): stands before the reads; a failing mkdir rejects.
HostEnsureDir ==
  /\ hostPc = "start"
  /\ \E ok \in BOOLEAN :
       /\ hostPc' = IF ok THEN "lookup" ELSE "done"
       /\ hostOutcome' = IF ok THEN <<>> ELSE << [status |-> "rejected", value |-> 0] >>
  /\ UNCHANGED << hostFrame, hostProcs, hostInserted >>

\* The two findOne calls and the guard: a failing read rejects; a host the
\* guard skips returns 0; otherwise runAttackJob starts its six templates in
\* one Promise.all and runVulnJob starts runNuclei.
HostLookup ==
  /\ hostPc = "lookup"
  /\ \E ok \in BOOLEAN :
       IF ~ok
       THEN /\ hostPc' = "done"
            /\ hostOutcome' = << [status |-> "rejected", value |-> 0] >>
            /\ UNCHANGED hostProcs
       ELSE IF skips(hostInputs.lookup.target)
       THEN /\ hostPc' = "done"
            /\ hostOutcome' = << [status |-> "fulfilled", value |-> 0] >>
            /\ UNCHANGED hostProcs
       ELSE /\ hostPc' = "scan"
            /\ hostProcs' = IF hostInputs.driver = "attack" THEN Templates ELSE 1
            /\ UNCHANGED hostOutcome
  /\ UNCHANGED << hostFrame, hostInserted >>

\* A process closes; the await goes on when the last one has.
HostProcessCloses ==
  /\ hostPc = "scan"
  /\ hostProcs' = hostProcs - 1
  /\ hostPc' = IF hostProcs' = 0 THEN "persist" ELSE "scan"
  /\ UNCHANGED << hostFrame, hostInserted, hostOutcome >>

\* insertMany of what was found, the catch block, and the return of the count.
HostPersist ==
  /\ hostPc = "persist"
  /\ \E insertOk \in BOOLEAN :
       LET r == attackPersist(hostInputs.found, insertOk) IN
         /\ hostInserted' = hostInserted + r.docs
         /\ hostOutcome' = << [status |-> "fulfilled", value |-> r.value] >>
  /\ hostPc' = "done"
  /\ UNCHANGED << hostFrame, hostProcs >>

HostNext ==
  \/ HostEnsureDir
  \/ HostLookup
  \/ HostProcessCloses
  \/ HostPersist

SpecHost == HostInit /\ [][HostNext]_vars

\* The host's owning target is missing, or its program id does not begin
\* with one of the three platform prefixes.
OutOfScope ==
  LET target == hostInputs.lookup.target
      begins(prefix) ==
        /\ Len(target[1].program) >= Len(prefix)
        /\ \A k \in 1..Len(prefix) : target[1].program[k] = prefix[k]
  IN \/ target = <<>>
     \/ /\ ~begins(<< "b", "u", "g", "c", "r", "o", "w", "d", ":" >>)
        /\ ~begins(<< "h", "a", "c", "k", "e", "r", "o", "n", "e", ":" >>)
        /\ ~begins(<< "i", "n", "t", "i", "g", "r", "i", "t", "i", ":" >>)

\* C29 as stated: for an out-of-scope host no external process is ever
\* started and nothing is inserted, and the job returns 0.
C29_OutOfScopeReturnsZero ==
  OutOfScope =>
    /\ hostProcs = 0
    /\ hostInserted = 0
    /\ hostPc = "done" => hostOutcome = << [status |-> "fulfilled", value |-> 0] >>

\* C29: for an out-of-scope host no external process is ever started and
\* nothing is inserted; the job returns 0, or rejects when ensureDir or one
\* of the two reads before the guard throws, and never returns a count.
C29_OutOfScopeStartsNothing ==
  OutOfScope =>
    /\ hostProcs = 0
    /\ hostInserted = 0
    /\ hostPc \in {"start", "lookup", "done"}
    /\ hostPc = "done" =>
         hostOutcome \in { << [status |-> "fulfilled", value |-> 0] >>,
                           << [status |-> "rejected", value |-> 0] >> }
    /\ hostPc # "done" => hostOutcome = <<>>

\* The guard has skipped a host whose target exists with a program outside
\* the three platforms: the job returned 0.
C29_Witness ==
  /\ OutOfScope
  /\ hostInputs.lookup.target # <<>>
  /\ hostInputs.lookup.target[1].program # <<>>
  /\ hostInputs.found > 0
  /\ hostPc = "done"
  /\ hostOutcome = << [status |-> "fulfilled", value |-> 0] >>

====
